---- MODULE Spec2Model ----
(***************************************************************************)
(* Content indexed file repository (repo.py, util.py).                     *)
(*                                                                         *)
(* Part I models the name/metadata index of a Repo handle, its             *)
(* persistence (load / commit / init on index.txt and meta.txt) and the    *)
(* advisory flock on <root>/lock, for several processes that work on the   *)
(* same repository root and may be killed at any step.                     *)
(***************************************************************************)
EXTENDS Integers, Sequences, FiniteSets, TLC

\* ------------------------------------------------------------------------
\* Bounds
\* ------------------------------------------------------------------------
MaxProc == 2
MaxName == 2
MaxContent == 2
MaxOps == 2
MaxKill == 1
MaxTime == 2
MaxSrc == 2
MaxEdit == 1
MaxCmd == 5
MaxLog == 3

Procs == 1..MaxProc
Names == 1..MaxName
Contents == 1..MaxContent
Times == 0..MaxTime
Srcs == 1..MaxSrc
\* one inode per path, and one for the temporary file of copy_in
Inos == 1..(MaxSrc + MaxContent + 1)

\* Python's None (names, contents and digests are positive)
None == 0

\* util.SHA256_LEN: a digest is 64 hex characters
SHA256_LEN == 64

\* hashlib.sha256 over the content of a file: one digest per content
hash_file(c) == SHA256_LEN + c

Digests == {hash_file(c) : c \in Contents}

\* st_size of a file with content c (distinct contents may share a size)
st_size(c) == (c + 1) \div 2

ContentOf(d) == d - SHA256_LEN

\* ------------------------------------------------------------------------
\* Python values: the index files are text, so a value that went through
\* commit and load comes back as a string
\* ------------------------------------------------------------------------
PyNum(n) == [ty |-> "num", v |-> n]
PyStr(n) == [ty |-> "str", v |-> n]

\* '%s' % value: the decimal text of the value, whatever its type
Text(pv) == pv.v

\* collections.namedtuple('Meta', 'size mtime')
Meta(size, mtime) == [size |-> size, mtime |-> mtime]

NoMeta == [size |-> PyNum(None), mtime |-> PyNum(None)]

\* ------------------------------------------------------------------------
\* Files of the repository root
\* ------------------------------------------------------------------------
\* gen is a ghost tag: the number of the commit that wrote the file
Absent == [exists |-> FALSE, lines |-> << >>, gen |-> 0]

EmptyFile(g) == [exists |-> TRUE, lines |-> << >>, gen |-> g]

RECURSIVE SortedSeq(_)
SortedSeq(S) ==
    IF S = {} THEN << >>
    ELSE LET m == CHOOSE x \in S : \A y \in S : x <= y
         IN  <<m>> \o SortedSeq(S \ {m})

EmptyIndex == [n \in Names |-> None]
EmptyMeta == [d \in Digests |-> NoMeta]

HasMeta(m, d) == m[d] # NoMeta

\* the lines commit writes to index.txt: '%s %s\n' % (name, digest), sorted
IndexLines(ix) ==
    LET ns == SortedSeq({n \in Names : ix[n] # None})
    IN  [i \in 1..Len(ns) |-> <<ns[i], ix[ns[i]]>>]

\* the lines commit writes to meta.txt: '%s %s %s\n', sorted by digest
MetaLines(m) ==
    LET ds == SortedSeq({d \in Digests : HasMeta(m, d)})
    IN  [i \in 1..Len(ds) |->
            <<ds[i], Text(m[ds[i]].size), Text(m[ds[i]].mtime)>>]

\* load: name, _, digest = line.rstrip().rpartition(' ')
ParseIndex(lines) ==
    [n \in Names |->
        IF \E i \in 1..Len(lines) : lines[i][1] = n
        THEN LET i == CHOOSE j \in 1..Len(lines) :
                          /\ lines[j][1] = n
                          /\ \A k \in (j+1)..Len(lines) : lines[k][1] # n
             IN  lines[i][2]
        ELSE None]

\* load: digest, size, mtime = line.strip().split(); the fields stay strings
ParseMeta(lines) ==
    [d \in Digests |->
        IF \E i \in 1..Len(lines) : lines[i][1] = d
        THEN LET i == CHOOSE j \in 1..Len(lines) :
                          /\ lines[j][1] = d
                          /\ \A k \in (j+1)..Len(lines) : lines[k][1] # d
             IN  Meta(PyStr(lines[i][2]), PyStr(lines[i][3]))
        ELSE NoMeta]

\* ------------------------------------------------------------------------
\* State
\* ------------------------------------------------------------------------
VARIABLES
    pc,         \* position of each process (one Repo handle per process)
    index,      \* Repo._index of each handle: name -> digest
    meta,       \* Repo._meta of each handle: digest -> Meta
    changed,    \* Repo._changed
    readonly,   \* Repo.readonly
    dryrun,     \* OPTIONS.dryrun of the process
    lockSh,     \* processes holding LOCK_SH on <root>/lock
    lockEx,     \* processes holding LOCK_EX on <root>/lock
    index_txt,  \* <root>/index.txt
    meta_txt,   \* <root>/meta.txt
    index_tmp,  \* <root>/index.txt.tmp
    meta_tmp,   \* <root>/meta.txt.tmp
    txn,        \* ghost: files before a commit and the files it is writing
    seen,       \* ghost: which commit wrote the files a load has read
    base,       \* ghost: the index a handle last loaded or committed
    VERBOSE,    \* util.VERBOSE: whether calls are logged
    last,       \* the last line of the log: the call and the branch it took
    ops,        \* number of mutator calls made so far
    kills,      \* number of processes killed so far
    ncommit,    \* ghost: number of commits started so far
    src,        \* files outside the repository: path -> inode
    obj,        \* <root>/objects/SHA256/../<digest>.d: digest -> inode
    inodes,     \* the inodes: content, mtime, mode and the hash xattr
    clock,      \* the time of day, in ticks
    edits,      \* number of edits made by other programs so far
    scrub,      \* do_scrub: its arguments, its position and what it did
    scrub_errors, \* <root>/scrub_errors.txt: the lines of the log
    call,       \* the call of link_in a process is in, and its position
    tmp_names,  \* the names <path>.<i> taken beside each file outside
    xdev,       \* the files outside that are on another filesystem
    xf,         \* a file with its mode and raw hash xattr, and the call on it
    last_commit_time, \* Repo._last_commit_time of each handle
    annex       \* the git-annex tree: its objects, symlinks and the call

scrubvars == <<scrub, scrub_errors>>

wvars == <<tmp_names, xdev, xf, last_commit_time, annex>>

svars == <<src, obj, inodes, clock, edits, scrubvars, call, wvars>>

ivars == <<pc, index, meta, changed, readonly, dryrun, lockSh, lockEx,
           index_txt, meta_txt, index_tmp, meta_tmp, txn, seen, base,
           VERBOSE, last, ops, kills, ncommit>>

vars == <<ivars, svars>>

memvars == <<index, meta, changed>>
diskvars == <<index_txt, meta_txt, index_tmp, meta_tmp>>
lockvars == <<lockSh, lockEx>>

\* no scrub has run: no arguments, no list, nothing visited
NoScrub == [pc |-> "idle", cont |-> None, cont0 |-> None,
            size |-> [given |-> FALSE, n |-> 0], modified |-> FALSE,
            fast |-> FALSE, list |-> << >>, pos |-> 0, problems |-> 0,
            reported |-> FALSE, visits |-> << >>, start |-> 0]

ScrubIdle == scrub = NoScrub /\ scrub_errors = << >>

\* the repository that do_pull reads, before do_pull has opened it:
\* index_txt and meta_txt are the lines of its files, objs the paths of its
\* objects, index and meta the dictionaries of the handle
\* Repo(fn, readonly=True) once it is loaded
NoOther == [index_txt |-> << >>, meta_txt |-> << >>,
            objs |-> [d \in Digests |-> None], loaded |-> FALSE,
            index |-> EmptyIndex, meta |-> EmptyMeta]

\* no call of link_in, link_to, link_overwrite or copy_in is going on, and
\* no temporary file of a call is in <root>/tmp; was, node and d0 are ghosts:
\* the object that was there for the digest of the source when the call
\* began, its inode and that digest
NoCall == [pc |-> "idle", p |-> 0, ino |-> None, digest |-> None,
           was |-> None, dst |-> 0, i |-> 0, name |-> 0, ow |-> FALSE,
           tmp |-> None, d0 |-> None, other |-> NoOther,
           node |-> [content |-> None, mtime |-> 0,
                     xattr |-> [mtime |-> -1, digest |-> None],
                     mode |-> "free"]]

\* a value of the hash xattr as the bytes that are stored: there is no
\* attribute, or its bytes are empty, or they do not decode as ASCII, or
\* they are text; of a text, whether it has a ':', the part before the
\* first ':' (num says whether int() takes it, n is its value), and the
\* part after it with its length
NoAttr == [kind |-> "absent", colon |-> FALSE, num |-> FALSE, n |-> 0,
           digest |-> None, len |-> 0]

\* no call of set_xattr_hash is going on, on a file without the attribute
NoFile == [pc |-> "idle", mtime |-> 0, mode |-> 0, attr |-> NoAttr,
           supported |-> TRUE, value |-> NoAttr, saved |-> None,
           exc |-> "none", mode0 |-> 0, arg |-> None, touched |-> FALSE,
           got |-> [exc |-> FALSE, v |-> None]]

\* no git-annex tree: no call of annex_add is going on, there is no object
\* under .git/annex/objects and no path is a symlink to one; made is the
\* ghost set of the paths annex_add made a symlink of, ino and content the
\* file the call began with
NoAnnex == [pc |-> "idle", p |-> 0, f |-> 0, digest |-> None,
            key |-> [d \in Digests |-> None],
            link |-> [g \in Srcs |-> None],
            made |-> {}, ino |-> None, content |-> None]

\* nothing outside the store is being worked on
WorkIdle ==
    /\ tmp_names = [f \in Srcs |-> {}]
    /\ xdev = {}
    /\ xf = NoFile
    /\ last_commit_time = [p \in Procs |-> 0]
    /\ annex = NoAnnex

\* what a load finds in a file: whether it is there, and its lines
Content(f) == <<f.exists, f.lines>>

NoTxn == [active |-> FALSE, gen |-> 0,
          preI |-> Content(Absent), preM |-> Content(Absent),
          postI |-> Content(Absent), postM |-> Content(Absent)]

NoLog == [p |-> 0, op |-> "none", out |-> "none"]

\* util.log: prints only when VERBOSE
Log(p, op, out) == IF VERBOSE THEN [p |-> p, op |-> op, out |-> out] ELSE NoLog

Snapshot(ix, m) == [index |-> ix, meta |-> m]

\* position of a process inside commit while it holds the exclusive lock
CommitLocked == {"c_open_meta", "c_wmeta", "c_windex", "c_ren_index",
                 "c_unlock"}

\* the positions at which commit touches a .tmp file or renames it
CommitWriting == {"c_wmeta", "c_windex", "c_ren_index"}

\* a repository root as earlier commands can have left it: not initialised,
\* just initialised, or holding one name and its metadata
RootAbsent == index_txt = Absent /\ meta_txt = Absent

RootEmpty == index_txt = EmptyFile(0) /\ meta_txt = EmptyFile(0)

RootOneName ==
    LET d == hash_file(1)
    IN  /\ index_txt = [EmptyFile(0) EXCEPT !.lines = <<<<1, d>>>>]
        /\ meta_txt = [EmptyFile(0) EXCEPT
                          !.lines = <<<<d, st_size(ContentOf(d)), 0>>>>]

\* the handles of the processes in procs, at position start; the others
\* have ended
IndexInit(procs, start) ==
    /\ pc = [p \in Procs |-> IF p \in procs THEN start ELSE "exit"]
    /\ index = [p \in Procs |-> EmptyIndex]
    /\ meta = [p \in Procs |-> EmptyMeta]
    /\ changed = [p \in Procs |-> FALSE]
    /\ lockSh = {}
    /\ lockEx = {}
    /\ RootAbsent \/ RootEmpty \/ RootOneName
    /\ index_tmp = Absent
    /\ meta_tmp = Absent
    /\ txn = [p \in Procs |-> NoTxn]
    /\ seen = [p \in Procs |-> <<0, 0>>]
    /\ base = [p \in Procs |-> Snapshot(EmptyIndex, EmptyMeta)]
    /\ last = NoLog
    /\ ops = 0
    /\ kills = 0
    /\ ncommit = 0

\* ------------------------------------------------------------------------
\* fcntl.flock on <root>/lock
\* ------------------------------------------------------------------------
\* LOCK_SH is granted when no process holds LOCK_EX
CanLockSh(p) == lockEx \subseteq {p}

\* LOCK_EX is granted when no other process holds any lock
CanLockEx(p) == lockEx \subseteq {p} /\ lockSh \subseteq {p}

\* load that reads without waiting for a writer to finish
_lock_read_nowait(p) ==
    /\ lockSh' = lockSh \cup {p}
    /\ lockEx' = lockEx

\* Repo._lock_read: flock(lock, LOCK_SH)
_lock_read(p) ==
    /\ CanLockSh(p)
    /\ lockSh' = lockSh \cup {p}
    /\ lockEx' = lockEx

\* commit that takes LOCK_SH where it needs LOCK_EX
_lock_write_shared(p) ==
    /\ CanLockSh(p)
    /\ lockSh' = lockSh \cup {p}
    /\ lockEx' = lockEx

\* Repo._lock_write: flock(lock, LOCK_EX)
_lock_write(p) ==
    /\ CanLockEx(p)
    /\ lockEx' = lockEx \cup {p}
    /\ lockSh' = lockSh

\* flock(lock, LOCK_UN), also what the kernel does when the process dies
_unlock(p) ==
    /\ lockSh' = lockSh \ {p}
    /\ lockEx' = lockEx \ {p}

\* ------------------------------------------------------------------------
\* Repo.load
\* ------------------------------------------------------------------------
\* self._index = {}; self._meta = {}; with self._lock_read():
LoadLock(p) ==
    /\ pc[p] = "new"
    /\ _lock_read(p)
    /\ index' = [index EXCEPT ![p] = EmptyIndex]
    /\ meta' = [meta EXCEPT ![p] = EmptyMeta]
    /\ pc' = [pc EXCEPT ![p] = "l_index"]
    /\ last' = Log(p, "load", "start")
    /\ UNCHANGED <<svars, VERBOSE, base, changed, readonly, dryrun, diskvars,
                   txn, seen, ops, kills, ncommit>>

\* if os.path.exists(self.index_abs): read index.txt line by line
LoadIndex(p) ==
    /\ pc[p] = "l_index"
    /\ IF index_txt.exists
       THEN /\ index' = [index EXCEPT ![p] = ParseIndex(index_txt.lines)]
            /\ seen' = [seen EXCEPT ![p] = <<index_txt.gen, 0>>]
            /\ pc' = [pc EXCEPT ![p] = "l_meta"]
       ELSE /\ pc' = [pc EXCEPT ![p] = "l_unlock"]
            /\ UNCHANGED <<index, seen>>
    /\ UNCHANGED <<svars, VERBOSE, base, meta, changed, readonly, dryrun,
                   lockvars, diskvars, txn, last, ops, kills, ncommit>>

\* read meta.txt line by line; open() raises when the file is missing
LoadMeta(p) ==
    /\ pc[p] = "l_meta"
    /\ IF meta_txt.exists
       THEN /\ meta' = [meta EXCEPT ![p] = ParseMeta(meta_txt.lines)]
            /\ seen' = [seen EXCEPT ![p] = <<seen[p][1], meta_txt.gen>>]
            /\ pc' = [pc EXCEPT ![p] = "l_unlock"]
            /\ UNCHANGED <<lockvars, last>>
       ELSE /\ pc' = [pc EXCEPT ![p] = "exit"]
            /\ _unlock(p)
            /\ last' = Log(p, "load", "error")
            /\ UNCHANGED <<meta, seen>>
    /\ UNCHANGED <<svars, VERBOSE, base, index, changed, readonly, dryrun,
                   diskvars, txn, ops, kills, ncommit>>

LoadUnlock(p) ==
    /\ pc[p] = "l_unlock"
    /\ _unlock(p)
    /\ pc' = [pc EXCEPT ![p] = "ready"]
    /\ last' = Log(p, "load", "done")
    /\ base' = [base EXCEPT ![p] = Snapshot(index[p], meta[p])]
    /\ UNCHANGED <<svars, VERBOSE, memvars, readonly, dryrun, diskvars, txn,
                   seen, ops, kills, ncommit>>

\* ------------------------------------------------------------------------
\* Repo.init
\* ------------------------------------------------------------------------
\* if os.path.exists(self.index_abs): raise RuntimeError (before the lock)
InitCheck(p) ==
    /\ pc[p] = "new"
    /\ IF index_txt.exists
       THEN /\ pc' = [pc EXCEPT ![p] = "exit"]
            /\ last' = Log(p, "init", "error")
       ELSE /\ pc' = [pc EXCEPT ![p] = "i_lock"]
            /\ last' = Log(p, "init", "start")
    /\ UNCHANGED <<svars, VERBOSE, base, memvars, readonly, dryrun, lockvars,
                   diskvars, txn, seen, ops, kills, ncommit>>

InitLock(p) ==
    /\ pc[p] = "i_lock"
    /\ _lock_write(p)
    /\ ncommit' = ncommit + 1
    /\ txn' = [q \in Procs |->
                 IF q = p THEN [NoTxn EXCEPT !.gen = ncommit + 1] ELSE NoTxn]
    /\ pc' = [pc EXCEPT ![p] = "i_index"]
    /\ UNCHANGED <<svars, VERBOSE, base, memvars, readonly, dryrun, diskvars,
                   seen, last, ops, kills>>

\* with open(self.index_abs, 'wb'): pass
InitIndex(p) ==
    /\ pc[p] = "i_index"
    /\ index_txt' = EmptyFile(txn[p].gen)
    /\ pc' = [pc EXCEPT ![p] = "i_meta"]
    /\ UNCHANGED <<svars, VERBOSE, base, memvars, readonly, dryrun, lockvars,
                   meta_txt, index_tmp, meta_tmp, txn, seen, last, ops, kills,
                   ncommit>>

\* with open(self.meta_abs, 'wb'): pass
InitMeta(p) ==
    /\ pc[p] = "i_meta"
    /\ meta_txt' = EmptyFile(txn[p].gen)
    /\ pc' = [pc EXCEPT ![p] = "i_unlock"]
    /\ UNCHANGED <<svars, VERBOSE, base, memvars, readonly, dryrun, lockvars,
                   index_txt, index_tmp, meta_tmp, txn, seen, last, ops,
                   kills, ncommit>>

\* leaving _lock_write; do_init returns and the process ends
InitUnlock(p) ==
    /\ pc[p] = "i_unlock"
    /\ _unlock(p)
    /\ pc' = [pc EXCEPT ![p] = "exit"]
    /\ last' = Log(p, "init", "done")
    /\ UNCHANGED <<svars, VERBOSE, base, memvars, readonly, dryrun, diskvars,
                   txn, seen, ops, kills, ncommit>>

\* ------------------------------------------------------------------------
\* Repo.commit
\* ------------------------------------------------------------------------
\* commit without the test of self._changed
CommitBeginAlways(p) ==
    /\ pc[p] = "ready"
    /\ IF dryrun[p]
       THEN /\ last' = Log(p, "commit", "dryrun")
            /\ UNCHANGED pc
       ELSE IF readonly[p]
       THEN /\ last' = Log(p, "commit", "readonly")
            /\ pc' = [pc EXCEPT ![p] = "exit"]
       ELSE /\ last' = Log(p, "commit", "start")
            /\ pc' = [pc EXCEPT ![p] = "c_lock"]
    /\ UNCHANGED <<svars, VERBOSE, base, memvars, readonly, dryrun, lockvars,
                   diskvars, txn, seen, ops, kills, ncommit>>

\* commit without the test of self.readonly
CommitBeginWritable(p) ==
    /\ pc[p] = "ready"
    /\ IF dryrun[p]
       THEN /\ last' = Log(p, "commit", "dryrun")
            /\ UNCHANGED pc
       ELSE IF ~changed[p]
       THEN /\ last' = Log(p, "commit", "unchanged")
            /\ UNCHANGED pc
       ELSE /\ last' = Log(p, "commit", "start")
            /\ pc' = [pc EXCEPT ![p] = "c_lock"]
    /\ UNCHANGED <<svars, VERBOSE, base, memvars, readonly, dryrun, lockvars,
                   diskvars, txn, seen, ops, kills, ncommit>>

\* the three early exits of commit, else wait for the exclusive lock
CommitBegin(p) ==
    /\ pc[p] = "ready"
    /\ IF dryrun[p]
       THEN /\ last' = Log(p, "commit", "dryrun")
            /\ UNCHANGED pc
       ELSE IF ~changed[p]
       THEN /\ last' = Log(p, "commit", "unchanged")
            /\ UNCHANGED pc
       ELSE IF readonly[p]
       THEN /\ last' = Log(p, "commit", "readonly")
            /\ pc' = [pc EXCEPT ![p] = "exit"]
       ELSE /\ last' = Log(p, "commit", "start")
            /\ pc' = [pc EXCEPT ![p] = "c_lock"]
    /\ UNCHANGED <<svars, VERBOSE, base, memvars, readonly, dryrun, lockvars,
                   diskvars, txn, seen, ops, kills, ncommit>>

\* with self._lock_write():
CommitLock(p) ==
    /\ pc[p] = "c_lock"
    /\ _lock_write(p)
    /\ ncommit' = ncommit + 1
    /\ txn' = [q \in Procs |->
                 IF q = p
                 THEN [active |-> TRUE, gen |-> ncommit + 1,
                       preI |-> Content(index_txt),
                       preM |-> Content(meta_txt),
                       postI |-> <<TRUE, IndexLines(index[p])>>,
                       postM |-> <<TRUE, MetaLines(meta[p])>>]
                 ELSE NoTxn]
    /\ pc' = [pc EXCEPT ![p] = "c_open_meta"]
    /\ UNCHANGED <<svars, VERBOSE, base, memvars, readonly, dryrun, diskvars,
                   seen, last, ops, kills>>

\* open(self.meta_abs + '.tmp', 'w'): create or truncate
CommitOpenMeta(p) ==
    /\ pc[p] = "c_open_meta"
    /\ meta_tmp' = EmptyFile(txn[p].gen)
    /\ pc' = [pc EXCEPT ![p] = "c_wmeta"]
    /\ UNCHANGED <<svars, VERBOSE, base, memvars, readonly, dryrun, lockvars,
                   index_txt, meta_txt, index_tmp, txn, seen, last, ops,
                   kills, ncommit>>

\* for digest in sorted(self._meta): fp.write(...), one line per step
CommitWriteMeta(p) ==
    /\ pc[p] = "c_wmeta"
    /\ Len(meta_tmp.lines) < Len(MetaLines(meta[p]))
    /\ meta_tmp' = [meta_tmp EXCEPT !.lines =
           Append(@, MetaLines(meta[p])[Len(meta_tmp.lines) + 1])]
    /\ UNCHANGED <<svars, VERBOSE, base, pc, memvars, readonly, dryrun,
                   lockvars, index_txt, meta_txt, index_tmp, txn, seen, last,
                   ops, kills, ncommit>>

\* commit that opens index.txt itself for writing
CommitOpenIndexInPlace(p) ==
    /\ pc[p] = "c_wmeta"
    /\ Len(meta_tmp.lines) = Len(MetaLines(meta[p]))
    /\ index_tmp' = EmptyFile(txn[p].gen)
    /\ index_txt' = EmptyFile(txn[p].gen)
    /\ pc' = [pc EXCEPT ![p] = "c_windex"]
    /\ UNCHANGED <<svars, VERBOSE, base, memvars, readonly, dryrun, lockvars,
                   meta_txt, meta_tmp, txn, seen, last, ops, kills, ncommit>>

\* meta.txt.tmp is closed; open(self.index_abs + '.tmp', 'w')
CommitOpenIndex(p) ==
    /\ pc[p] = "c_wmeta"
    /\ Len(meta_tmp.lines) = Len(MetaLines(meta[p]))
    /\ index_tmp' = EmptyFile(txn[p].gen)
    /\ pc' = [pc EXCEPT ![p] = "c_windex"]
    /\ UNCHANGED <<svars, VERBOSE, base, memvars, readonly, dryrun, lockvars,
                   index_txt, meta_txt, meta_tmp, txn, seen, last, ops, kills,
                   ncommit>>

\* for name in sorted(self._index): fp.write(...), one line per step
CommitWriteIndex(p) ==
    /\ pc[p] = "c_windex"
    /\ Len(index_tmp.lines) < Len(IndexLines(index[p]))
    /\ index_tmp' = [index_tmp EXCEPT !.lines =
           Append(@, IndexLines(index[p])[Len(index_tmp.lines) + 1])]
    /\ UNCHANGED <<svars, VERBOSE, base, pc, memvars, readonly, dryrun,
                   lockvars, index_txt, meta_txt, meta_tmp, txn, seen, last,
                   ops, kills, ncommit>>

\* index.txt.tmp is closed; os.rename(self.meta_abs + '.tmp', self.meta_abs)
CommitRenameMeta(p) ==
    /\ pc[p] = "c_windex"
    /\ Len(index_tmp.lines) = Len(IndexLines(index[p]))
    /\ meta_txt' = meta_tmp
    /\ meta_tmp' = Absent
    /\ pc' = [pc EXCEPT ![p] = "c_ren_index"]
    /\ UNCHANGED <<svars, VERBOSE, base, memvars, readonly, dryrun, lockvars,
                   index_txt, index_tmp, txn, seen, last, ops, kills,
                   ncommit>>

\* os.rename(self.index_abs + '.tmp', self.index_abs)
CommitRenameIndex(p) ==
    /\ pc[p] = "c_ren_index"
    /\ index_txt' = index_tmp
    /\ index_tmp' = Absent
    /\ pc' = [pc EXCEPT ![p] = "c_unlock"]
    /\ UNCHANGED <<svars, VERBOSE, base, memvars, readonly, dryrun, lockvars,
                   meta_txt, meta_tmp, txn, seen, last, ops, kills, ncommit>>

\* leaving _lock_write, then self._changed = False
CommitUnlock(p) ==
    /\ pc[p] = "c_unlock"
    /\ _unlock(p)
    /\ changed' = [changed EXCEPT ![p] = FALSE]
    /\ txn' = [txn EXCEPT ![p] = NoTxn]
    /\ pc' = [pc EXCEPT ![p] = "ready"]
    /\ last' = Log(p, "commit", "done")
    /\ base' = [base EXCEPT ![p] = Snapshot(index[p], meta[p])]
    /\ UNCHANGED <<svars, VERBOSE, index, meta, readonly, dryrun, diskvars,
                   seen, ops, kills, ncommit>>

\* ------------------------------------------------------------------------
\* The process is killed (SIGKILL, power loss of the process only)
\* ------------------------------------------------------------------------
Alive(p) == pc[p] \notin {"new", "exit", "dead"}

Kill(p) ==
    /\ Alive(p)
    /\ kills < MaxKill
    /\ kills' = kills + 1
    /\ _unlock(p)
    /\ pc' = [pc EXCEPT ![p] = "dead"]
    /\ index' = [index EXCEPT ![p] = EmptyIndex]
    /\ meta' = [meta EXCEPT ![p] = EmptyMeta]
    /\ changed' = [changed EXCEPT ![p] = FALSE]
    /\ last' = Log(p, "kill", pc[p])
    /\ base' = [base EXCEPT ![p] = Snapshot(EmptyIndex, EmptyMeta)]
    /\ UNCHANGED <<svars, VERBOSE, readonly, dryrun, diskvars, txn, seen, ops,
                   ncommit>>

\* ------------------------------------------------------------------------
\* The index of a handle and its mutators
\* ------------------------------------------------------------------------
Handle(p) == [index |-> index[p], meta |-> meta[p], changed |-> changed[p]]

SetHandle(p, h) ==
    /\ index' = [index EXCEPT ![p] = h.index]
    /\ meta' = [meta EXCEPT ![p] = h.meta]
    /\ changed' = [changed EXCEPT ![p] = h.changed]

\* os.stat(filename) as far as add_data uses it
Stat(size, mtime) == [size |-> size, mtime |-> mtime]

\* Repo.get_names
get_names(h, digest) == {n \in Names : h.index[n] = digest}

\* Repo.add_data: no dry-run guard
add_data(h, digest, st) ==
    [h EXCEPT !.meta[digest] = Meta(PyNum(st.size), PyNum(st.mtime)),
              !.changed = TRUE]

\* Repo.add_name: the branch taken
add_name_out(h, dry, digest, name, overwrite) ==
    IF dry THEN "dryrun"
    ELSE IF h.index[name] = digest THEN "same"
    ELSE IF h.index[name] = None THEN "new"
    ELSE IF overwrite THEN "overwrite"
    ELSE "conflict"

\* add_name that ignores the overwrite flag
add_name_clobber(h, dry, digest, name, overwrite) ==
    IF dry \/ h.index[name] = digest THEN h
    ELSE [h EXCEPT !.index[name] = digest, !.changed = TRUE]

\* Repo.add_name
add_name(h, dry, digest, name, overwrite) ==
    IF add_name_out(h, dry, digest, name, overwrite) \in {"new", "overwrite"}
    THEN [h EXCEPT !.index[name] = digest, !.changed = TRUE]
    ELSE h

\* Repo.remove_name: the branch taken ("assert" is the AssertionError)
remove_name_out(h, dry, digest, name) ==
    IF dry THEN "dryrun"
    ELSE IF h.index[name] = None THEN "absent"
    ELSE IF h.index[name] # digest THEN "assert"
    ELSE "removed"

\* Repo.remove_name
remove_name(h, dry, digest, name) ==
    IF remove_name_out(h, dry, digest, name) = "removed"
    THEN [h EXCEPT !.index[name] = None, !.changed = TRUE]
    ELSE h

\* Repo.remove_meta: no dry-run guard
remove_meta(h, digest) ==
    IF HasMeta(h.meta, digest)
    THEN [h EXCEPT !.meta[digest] = NoMeta, !.changed = TRUE]
    ELSE h

\* delete_files that removes the metadata of the digests as well
delete_files_purge(h, dry, digests) ==
    [h EXCEPT
        !.index = [n \in Names |->
                      IF ~dry /\ h.index[n] \in digests
                      THEN None ELSE h.index[n]],
        !.meta = [d \in Digests |->
                     IF ~dry /\ d \in digests THEN NoMeta ELSE h.meta[d]],
        !.changed = TRUE]

\* Repo.delete_files: the names go unless dry-run, the flag is set anyway
delete_files(h, dry, digests) ==
    IF digests = {} THEN h
    ELSE [h EXCEPT
            !.index = [n \in Names |->
                          IF ~dry /\ h.index[n] \in digests
                          THEN None ELSE h.index[n]],
            !.changed = TRUE]

\* Repo.delete_names: the names go unless dry-run, the flag is set anyway
delete_names(h, dry, names) ==
    IF names = {} THEN h
    ELSE [h EXCEPT
            !.index = [n \in Names |->
                          IF ~dry /\ n \in names THEN None ELSE h.index[n]],
            !.changed = TRUE]

\* Repo.set_names: no dry-run guard
set_names(h, digest, names) ==
    [h EXCEPT
        !.index = [n \in Names |->
                      IF n \in names THEN digest
                      ELSE IF h.index[n] = digest THEN None
                      ELSE h.index[n]],
        !.changed = TRUE]

\* rename_file that leaves self._changed as it is
rename_file_unflagged(h, old, new) ==
    IF h.index[old] # None
    THEN [h EXCEPT
            !.index = [[h.index EXCEPT ![old] = None]
                          EXCEPT ![new] = h.index[old]]]
    ELSE h

\* Repo.rename_file: no dry-run guard, no check of the new name
rename_file(h, old, new) ==
    IF h.index[old] # None
    THEN [h EXCEPT
            !.index = [[h.index EXCEPT ![old] = None]
                          EXCEPT ![new] = h.index[old]],
            !.changed = TRUE]
    ELSE h

\* Repo.find_name_size: a size read from meta.txt is a string
find_name_size(h, name, size) ==
    IF h.index[name] = None THEN None
    ELSE IF h.meta[h.index[name]].size = PyNum(size) THEN h.index[name]
    ELSE None

\* get_deleted that yields every digest with metadata
get_deleted_all(h) == {d \in Digests : HasMeta(h.meta, d)}

\* Repo.get_deleted: digests = set(self._index.values()), then the digests
\* of _meta that are not among them
get_deleted(h) ==
    LET digests == {h.index[n] : n \in Names} \ {None}
    IN  {d \in Digests : HasMeta(h.meta, d) /\ d \notin digests}

\* a handle that finished load and is not inside commit runs one call
CanCall(p) == pc[p] = "ready" /\ ops < MaxOps

Called(p, h, op, out) ==
    /\ SetHandle(p, h)
    /\ ops' = ops + 1
    /\ last' = Log(p, op, out)
    /\ UNCHANGED <<svars, VERBOSE, base, pc, readonly, dryrun, lockvars,
                   diskvars, txn, seen, kills, ncommit>>

AddData(p) ==
    /\ CanCall(p)
    /\ \E d \in Digests :
          Called(p, add_data(Handle(p), d, Stat(st_size(ContentOf(d)), clock)),
                 "add_data", "set")

AddName(p) ==
    /\ CanCall(p)
    /\ \E d \in Digests, n \in Names, ow \in BOOLEAN :
          Called(p, add_name(Handle(p), dryrun[p], d, n, ow), "add_name",
                 add_name_out(Handle(p), dryrun[p], d, n, ow))

\* the AssertionError ends the process
RemoveName(p) ==
    /\ CanCall(p)
    /\ \E d \in Digests, n \in Names :
          LET out == remove_name_out(Handle(p), dryrun[p], d, n)
          IN  /\ SetHandle(p, remove_name(Handle(p), dryrun[p], d, n))
              /\ ops' = ops + 1
              /\ last' = Log(p, "remove_name", out)
              /\ pc' = [pc EXCEPT ![p] = IF out = "assert" THEN "exit" ELSE @]
              /\ UNCHANGED <<svars, VERBOSE, base, readonly, dryrun, lockvars,
                             diskvars, txn, seen, kills, ncommit>>

RemoveMeta(p) ==
    /\ CanCall(p)
    /\ \E d \in Digests :
          Called(p, remove_meta(Handle(p), d), "remove_meta",
                 IF HasMeta(meta[p], d) THEN "removed" ELSE "absent")

DeleteFiles(p) ==
    /\ CanCall(p)
    /\ \E ds \in SUBSET Digests :
          Called(p, delete_files(Handle(p), dryrun[p], ds), "delete_files",
                 IF ds = {} THEN "empty" ELSE "deleted")

DeleteNames(p) ==
    /\ CanCall(p)
    /\ \E ns \in SUBSET Names :
          Called(p, delete_names(Handle(p), dryrun[p], ns), "delete_names",
                 IF ns = {} THEN "empty"
                 ELSE IF \E n \in ns : index[p][n] # None THEN "deleted"
                 ELSE "no file")

SetNames(p) ==
    /\ CanCall(p)
    /\ \E d \in Digests, ns \in SUBSET Names :
          Called(p, set_names(Handle(p), d, ns), "set_names", "set")

RenameFile(p) ==
    /\ CanCall(p)
    /\ \E old \in Names, new \in Names :
          Called(p, rename_file(Handle(p), old, new), "rename_file",
                 IF index[p][old] # None THEN "renamed" ELSE "no file")

\* ------------------------------------------------------------------------
\* Part II: files, hardlinks, the hash xattr and the object store
\* ------------------------------------------------------------------------
\* int(st_mtime): st_mtime has a fraction that the tag of a file drops; the
\* clock runs through second 0 in MaxTime ticks and ends in second 1
Sec(t) == t \div MaxTime

NoXattr == [mtime |-> -1, digest |-> None]

FreeIno == [content |-> None, mtime |-> 0, xattr |-> NoXattr, mode |-> "free"]

FS == [src |-> src, obj |-> obj, inodes |-> inodes]

\* the inodes some path links to; the kernel frees the others
Linked(fs) ==
    ({fs.src[f] : f \in Srcs} \cup {fs.obj[d] : d \in Digests}
        \cup {annex.key[d] : d \in Digests} \cup {call.tmp}) \ {None}

Collect(fs) ==
    [fs EXCEPT !.inodes = [i \in Inos |->
        IF i \in Linked(fs) THEN fs.inodes[i] ELSE FreeIno]]

SetFS(fs) ==
    /\ src' = fs.src
    /\ obj' = fs.obj
    /\ inodes' = Collect(fs).inodes

NewIno(fs) ==
    CHOOSE i \in Inos :
        /\ fs.inodes[i] = FreeIno
        /\ \A j \in Inos : fs.inodes[j] = FreeIno => i <= j

\* os.stat(fn) of the file with inode ino
os_stat(fs, ino) ==
    Stat(st_size(fs.inodes[ino].content), fs.inodes[ino].mtime)

\* Repo.data_exists
data_exists(fs, digest) == fs.obj[digest] # None

\* util.get_xattr_hash that trusts the attribute whatever the mtime
get_xattr_hash_any(node) ==
    IF node.xattr = NoXattr THEN None ELSE node.xattr.digest

\* util.get_xattr_hash: the digest only if the encoded mtime is the file's
get_xattr_hash(node) ==
    IF node.xattr = NoXattr THEN None
    ELSE IF Sec(node.mtime) = node.xattr.mtime THEN node.xattr.digest
    ELSE None

\* util.set_xattr_hash: '%d:%s' % (int(mtime), digest); write_access puts
\* the mode back
set_xattr_hash(fs, ino, digest, mtime) ==
    [fs EXCEPT !.inodes[ino].xattr = [mtime |-> Sec(mtime), digest |-> digest]]

\* util.link_over(key_abs, dst): a new link to the object renamed over dst
link_over(fs, digest, f) == [fs EXCEPT !.src[f] = fs.obj[digest]]

\* Repo._link_in: tag the file, link it at the object path, chmod 0o444
_link_in(fs, dry, ino, digest) ==
    IF dry THEN fs
    ELSE LET tagged == set_xattr_hash(fs, ino, digest, fs.inodes[ino].mtime)
             linked == [tagged EXCEPT !.obj[digest] = ino]
         IN  [linked EXCEPT !.inodes[ino].mode = "ro"]

\* aliases switched off
no_alias_on == TRUE

\* OPTIONS.no_alias
no_alias == FALSE

Result(fs, h, out) == [fs |-> fs, h |-> h, out |-> out]

\* do_import.store(src_fn) with name = prefix_path(args.prefix, src_fn)
store(fs, h, dry, f, name, overwrite, rehash) ==
    LET ino == fs.src[f]
        node == fs.inodes[ino]
        cached == IF rehash THEN None ELSE get_xattr_hash(node)
        digest == IF cached = None THEN hash_file(node.content) ELSE cached
    IN  IF h.index[name] # None /\ ~overwrite
        THEN Result(fs, h, "name exists")
        ELSE IF ~overwrite
                /\ find_name_size(h, name, st_size(node.content)) # None
        THEN Result(fs, h, "name and size exist")
        ELSE IF data_exists(fs, digest)
        THEN IF fs.obj[digest] # ino
             THEN Result(IF dry THEN fs ELSE link_over(fs, digest, f),
                         add_name(h, dry, digest, name, overwrite),
                         "link from repo")
             ELSE Result(fs, add_name(h, dry, digest, name, overwrite),
                         "skip existing")
        ELSE LET fs1 == _link_in(fs, dry, ino, digest)
                 h1 == add_data(h, digest, os_stat(fs1, ino))
             IN  Result(fs1, add_name(h1, dry, digest, name, overwrite),
                        "import")

\* Repo._copy_tmp: the source is hashed while it is copied to a temporary
\* file in <root>/tmp, which is tagged with the mtime of the source; in a
\* dry run the "temporary file" is the source itself
_copy_tmp(fs, dry, ino, now) ==
    IF dry THEN [fs |-> fs, tmp |-> ino]
    ELSE LET tmp == NewIno(fs)
             digest == hash_file(fs.inodes[ino].content)
             copied == [fs EXCEPT !.inodes[tmp] =
                          [content |-> fs.inodes[ino].content, mtime |-> now,
                           xattr |-> NoXattr, mode |-> "rw"]]
         IN  [fs |-> set_xattr_hash(copied, tmp, digest, fs.inodes[ino].mtime),
              tmp |-> tmp]

\* Repo.copy_in(src_fn, name, overwrite); tmp.close() removes the temporary
\* name
copy_in(fs, h, dry, f, name, overwrite, now) ==
    LET ino == fs.src[f]
        node == fs.inodes[ino]
        digest == hash_file(node.content)
        ct == _copy_tmp(fs, dry, ino, now)
    IN  IF h.index[name] # None /\ ~overwrite
        THEN Result(fs, h, "name exists")
        ELSE IF find_name_size(h, name, st_size(node.content)) # None
        THEN Result(fs, h, "name and size exist")
        ELSE IF ~data_exists(ct.fs, digest)
        THEN LET fs1 == _link_in(ct.fs, dry, ct.tmp, digest)
                 h1 == add_data(h, digest, os_stat(fs1, ct.tmp))
             IN  Result(fs1, add_name(h1, dry, digest, name, overwrite),
                        "copy new data")
        ELSE IF name \notin get_names(h, digest)
        THEN IF ~no_alias
             THEN Result(ct.fs, add_name(h, dry, digest, name, overwrite),
                         "add name")
             ELSE Result(ct.fs, h, "no alias")
        ELSE Result(ct.fs, h, "nothing")

StoreCalled(p, r, op) ==
    /\ SetFS(r.fs)
    /\ SetHandle(p, r.h)
    /\ ops' = ops + 1
    /\ last' = Log(p, op, r.out)
    /\ UNCHANGED <<clock, edits, scrubvars, call, VERBOSE, base, pc, readonly,
                   dryrun, lockvars, diskvars, txn, seen, kills, ncommit,
                   wvars>>

\* import <file>: one file of the walk of do_import
Import(p) ==
    /\ CanCall(p)
    /\ \E f \in Srcs, n \in Names, ow \in BOOLEAN, rh \in BOOLEAN :
          /\ src[f] # None
          /\ StoreCalled(p, store(FS, Handle(p), dryrun[p], f, n, ow, rh),
                         "import")

\* copy <file>: one file of the walk of do_copy
CopyIn(p) ==
    /\ CanCall(p)
    /\ \E f \in Srcs, n \in Names, ow \in BOOLEAN :
          /\ src[f] # None
          /\ StoreCalled(p, copy_in(FS, Handle(p), dryrun[p], f, n, ow, clock),
                         "copy_in")

\* repo.commit() at the end of a command, then the next command loads the
\* repository: one process after the other, so nothing interleaves
Reopen(p) ==
    /\ pc[p] = "ready"
    /\ LET write == ~dryrun[p] /\ changed[p] /\ ~readonly[p]
           ifile == IF write
                    THEN [EmptyFile(ncommit + 1) EXCEPT
                             !.lines = IndexLines(index[p])]
                    ELSE index_txt
           mfile == IF write
                    THEN [EmptyFile(ncommit + 1) EXCEPT
                             !.lines = MetaLines(meta[p])]
                    ELSE meta_txt
       IN  /\ index_txt' = ifile
           /\ meta_txt' = mfile
           /\ ncommit' = IF write THEN ncommit + 1 ELSE ncommit
           /\ index' = [index EXCEPT ![p] = ParseIndex(ifile.lines)]
           /\ meta' = [meta EXCEPT ![p] = ParseMeta(mfile.lines)]
           /\ changed' = [changed EXCEPT ![p] = FALSE]
           /\ base' = [base EXCEPT ![p] =
                          Snapshot(ParseIndex(ifile.lines),
                                   ParseMeta(mfile.lines))]
           /\ seen' = [seen EXCEPT ![p] = <<ifile.gen, mfile.gen>>]
    /\ last' = Log(p, "load", "done")
    /\ UNCHANGED <<svars, VERBOSE, pc, readonly, dryrun, lockvars, index_tmp,
                   meta_tmp, txn, ops, kills>>

\* time passes
Tick ==
    /\ clock < MaxTime
    /\ clock' = clock + 1
    /\ UNCHANGED <<ivars, src, obj, inodes, edits, scrubvars, call, wvars>>

\* a file that is not an object of the store and is writable
Editable(f) ==
    /\ src[f] # None
    /\ inodes[src[f]].mode = "rw"
    /\ \A d \in Digests : obj[d] # src[f]

\* another program writes new content into a file, in a later second than
\* the file's mtime
EnvWrite(f, c) ==
    /\ edits < MaxEdit
    /\ Editable(f)
    /\ Sec(clock) # Sec(inodes[src[f]].mtime)
    /\ inodes[src[f]].content # c
    /\ inodes' = [inodes EXCEPT ![src[f]].content = c, ![src[f]].mtime = clock]
    /\ edits' = edits + 1
    /\ UNCHANGED <<ivars, src, obj, clock, scrubvars, call, wvars>>

\* another program writes new content into a file within the second of the
\* file's mtime, or puts the mtime back: int(st_mtime) stays what it was
EnvWriteSameSecond(f, c) ==
    /\ edits < MaxEdit
    /\ Editable(f)
    /\ Sec(clock) = Sec(inodes[src[f]].mtime)
    /\ inodes[src[f]].content # c
    /\ inodes' = [inodes EXCEPT ![src[f]].content = c, ![src[f]].mtime = clock]
    /\ edits' = edits + 1
    /\ UNCHANGED <<ivars, src, obj, clock, scrubvars, call, wvars>>

\* source files as other programs left them: untagged, or tagged with the
\* digest of their content by an earlier import
SourceFiles ==
    {node \in [content : Contents, mtime : {0},
               xattr : {NoXattr} \cup [mtime : {0}, digest : Digests],
               mode : {"rw"}] :
        node.xattr # NoXattr => node.xattr.digest = hash_file(node.content)}

\* an initialised, empty repository, loaded by process 1, and the files
\* outside it
StoreRoot ==
    /\ IndexInit({1}, "ready")
    /\ RootEmpty
    /\ readonly = [p \in Procs |-> FALSE]
    /\ dryrun \in [Procs -> BOOLEAN]
    /\ \A p \in Procs \ {1} : ~dryrun[p]
    /\ src = [f \in Srcs |-> f]
    /\ obj = [d \in Digests |-> None]
    /\ \E files \in [Srcs -> SourceFiles] :
          inodes = [i \in Inos |-> IF i \in Srcs THEN files[i] ELSE FreeIno]
    /\ clock = 0
    /\ edits = 0
    /\ ScrubIdle
    /\ call = NoCall
    /\ WorkIdle

\* one call after the other, every call logged (-v)
StoreInit == StoreRoot /\ VERBOSE = TRUE

StoreNext ==
    \/ \E p \in Procs : Import(p)
    \/ \E p \in Procs : CopyIn(p)
    \/ \E p \in Procs : Reopen(p)
    \/ \E f \in Srcs, c \in Contents : EnvWrite(f, c)
    \/ Tick

StoreEnvNext ==
    \/ StoreNext
    \/ \E f \in Srcs, c \in Contents : EnvWriteSameSecond(f, c)

\* imports and copies, among edits that change the mtime of the file
SpecStore == StoreInit /\ [][StoreNext]_vars

\* the same, among edits that leave int(st_mtime) of the file unchanged
SpecStoreEnv == StoreInit /\ [][StoreEnvNext]_vars

\* ------------------------------------------------------------------------
\* Part III: commands that delete names and collect garbage
\* ------------------------------------------------------------------------
\* Repo.remove_data: unlink the object unless the digest has metadata
remove_data(fs, h, dry, digest) ==
    IF HasMeta(h.meta, digest) THEN fs
    ELSE IF data_exists(fs, digest) /\ ~dry
    THEN [fs EXCEPT !.obj[digest] = None]
    ELSE fs

\* the digests do_show_deleted lists: get_deleted(), or with --crawl the
\* object files whose digest has no metadata
listed_deleted(fs, h, crawl) ==
    IF ~crawl THEN get_deleted(h)
    ELSE {d \in Digests : data_exists(fs, d) /\ ~HasMeta(h.meta, d)}

\* do_show_deleted --clean: remove_meta, then remove_data, digest by digest
RECURSIVE clean_deleted(_, _, _, _)
clean_deleted(fs, h, dry, deleted) ==
    IF deleted = {} THEN Result(fs, h, "cleaned")
    ELSE LET d == CHOOSE x \in deleted : \A y \in deleted : x <= y
             h1 == remove_meta(h, d)
             fs1 == remove_data(fs, h1, dry, d)
         IN  clean_deleted(fs1, h1, dry, deleted \ {d})

\* do_show_deleted
do_show_deleted(fs, h, dry, crawl, clean) ==
    IF clean THEN clean_deleted(fs, h, dry, listed_deleted(fs, h, crawl))
    ELSE Result(fs, h, "listed")

\* do_clean_meta: remove_meta for every digest of list(get_deleted())
RECURSIVE do_clean_meta(_, _)
do_clean_meta(h, deleted) ==
    IF deleted = {} THEN h
    ELSE LET d == CHOOSE x \in deleted : \A y \in deleted : x <= y
         IN  do_clean_meta(remove_meta(h, d), deleted \ {d})

\* one entry (fn, digest) of the other repository in the loop of do_pull;
\* file f is other.data(digest)
do_pull(fs, h, dry, f, fn, overwrite, now) ==
    LET digest == hash_file(fs.inodes[fs.src[f]].content)
        digest2 == h.index[fn]
    IN  IF digest2 = digest THEN Result(fs, h, "exists")
        ELSE IF digest2 # None /\ ~overwrite THEN Result(fs, h, "skipping")
        ELSE IF data_exists(fs, digest)
        THEN Result(fs, add_name(h, dry, digest, fn, overwrite), "add name")
        ELSE copy_in(fs, h, dry, f, fn, overwrite, now)

\* a command of the CLI: _open_repo has loaded the handle, the command
\* changes files and handle as in r, repo.commit() writes the index, and
\* the next command loads what is on disk
Command(p, r, op) ==
    /\ pc[p] = "ready"
    /\ ncommit < MaxCmd
    /\ SetFS(r.fs)
    /\ LET write == ~dryrun[p] /\ r.h.changed /\ ~readonly[p]
           ifile == IF write
                    THEN [EmptyFile(ncommit + 1) EXCEPT
                             !.lines = IndexLines(r.h.index)]
                    ELSE index_txt
           mfile == IF write
                    THEN [EmptyFile(ncommit + 1) EXCEPT
                             !.lines = MetaLines(r.h.meta)]
                    ELSE meta_txt
       IN  /\ index_txt' = ifile
           /\ meta_txt' = mfile
           /\ ncommit' = IF write THEN ncommit + 1 ELSE ncommit
           /\ index' = [index EXCEPT ![p] = ParseIndex(ifile.lines)]
           /\ meta' = [meta EXCEPT ![p] = ParseMeta(mfile.lines)]
           /\ changed' = [changed EXCEPT ![p] = FALSE]
           /\ base' = [base EXCEPT ![p] =
                          Snapshot(ParseIndex(ifile.lines),
                                   ParseMeta(mfile.lines))]
           /\ seen' = [seen EXCEPT ![p] = <<ifile.gen, mfile.gen>>]
    /\ last' = Log(p, op, r.out)
    /\ UNCHANGED <<clock, edits, scrubvars, call, VERBOSE, pc, readonly, dryrun,
                   lockvars, index_tmp, meta_tmp, txn, ops, kills, wvars>>

\* import <file>
CmdImport(p) ==
    \E f \in Srcs, n \in Names, ow \in BOOLEAN, rh \in BOOLEAN :
        /\ src[f] # None
        /\ Command(p, store(FS, Handle(p), dryrun[p], f, n, ow, rh), "import")

\* copy <file>
CmdCopy(p) ==
    \E f \in Srcs, n \in Names, ow \in BOOLEAN :
        /\ src[f] # None
        /\ Command(p, copy_in(FS, Handle(p), dryrun[p], f, n, ow, clock),
                   "copy")

\* pull <other repo>
CmdPull(p) ==
    \E f \in Srcs, n \in Names, ow \in BOOLEAN :
        /\ src[f] # None
        /\ Command(p, do_pull(FS, Handle(p), dryrun[p], f, n, ow, clock),
                   "pull")

\* delete-names <names>
DeleteNamesCmd(p, names) ==
    Command(p, Result(FS, delete_names(Handle(p), dryrun[p], names),
                      IF names = {} THEN "empty" ELSE "deleted"),
            "delete-names")

CmdDeleteNames(p) == \E ns \in SUBSET Names : DeleteNamesCmd(p, ns)

\* delete <digests>
DeleteCmd(p, digests) ==
    Command(p, Result(FS, delete_files(Handle(p), dryrun[p], digests),
                      IF digests = {} THEN "empty" ELSE "deleted"),
            "delete")

CmdDelete(p) == \E ds \in SUBSET Digests : DeleteCmd(p, ds)

\* clean-meta
CmdCleanMeta(p) ==
    Command(p, Result(FS, do_clean_meta(Handle(p), get_deleted(Handle(p))),
                      "cleaned"),
            "clean-meta")

\* show-deleted [--crawl] [--clean]
ShowDeletedCmd(p, crawl, clean) ==
    Command(p, do_show_deleted(FS, Handle(p), dryrun[p], crawl, clean),
            "show-deleted")

CmdShowDeleted(p) ==
    \E crawl \in BOOLEAN, clean \in BOOLEAN : ShowDeletedCmd(p, crawl, clean)

GcNext ==
    \/ \E p \in Procs : CmdImport(p)
    \/ \E p \in Procs : CmdCopy(p)
    \/ \E p \in Procs : CmdPull(p)
    \/ \E p \in Procs : CmdDeleteNames(p)
    \/ \E p \in Procs : CmdDelete(p)
    \/ \E p \in Procs : CmdCleanMeta(p)
    \/ \E p \in Procs : CmdShowDeleted(p)

\* one command after the other on an initialised, empty repository,
\* without -v
GcInit == StoreRoot /\ VERBOSE = FALSE

SpecGc == GcInit /\ [][GcNext]_vars

\* ------------------------------------------------------------------------
\* Part IV: scrub
\* ------------------------------------------------------------------------
\* abs(st.st_mtime - float(meta['mtime'])) > 5: the seconds of tolerance
MtimeSlack == 5

\* int(value), float(value) of a number or of its decimal text
PyInt(pv) == pv.v

\* do_scrub: mtime_differs (the clock has MaxTime ticks per second)
mtime_differs(st, m) ==
    LET diff == st.mtime - PyInt(m.mtime)
    IN  (IF diff < 0 THEN 0 - diff ELSE diff) > MtimeSlack * MaxTime

\* a content no source file has: an object that was damaged
Damaged == MaxContent + 1

\* the arguments of scrub: --continue, --size, --modified, --fast
ScrubArgs ==
    [cont : {None} \cup Digests,
     size : {[given |-> FALSE, n |-> 0]}
            \cup [given : {TRUE}, n : 0..st_size(MaxContent)],
     modified : BOOLEAN,
     fast : BOOLEAN]

\* a checkpoint that skips nothing
skip_digest_never(a, digest) == FALSE

\* do_scrub: "if args.cont: if digest == args.cont: ... else: continue"
skip_digest(a, digest) == a.cont # None /\ digest # a.cont

\* a size ceiling that counts also when it is 0
too_large_strict(size, st) == size.given /\ st.size > size.n

\* "args.size and st.st_size > args.size": None and 0 are both false
too_large(size, st) == size.given /\ size.n # 0 /\ st.size > size.n

\* err(kind, digest, ...): one line of scrub_errors.txt
ErrLine(kind, digest) == <<kind, digest>>

\* what the loop of do_scrub did with one digest (ghost)
Visit(digest, skipped, exists, st, hashed) ==
    [digest |-> digest, skipped |-> skipped, exists |-> exists,
     size |-> st.size, mtime |-> st.mtime, hashed |-> hashed]

ScrubOut(cont, lines, fs, problems, visit) ==
    [cont |-> cont, lines |-> lines, fs |-> fs, problems |-> problems,
     visit |-> visit]

\* a rehash that takes the digest from the xattr when it looks valid
scrub_hash_cached(node) ==
    IF get_xattr_hash(node) # None THEN get_xattr_hash(node)
    ELSE hash_file(node.content)

\* do_scrub: digest2, tmp = util.hash_file(fn)
scrub_hash(node) == hash_file(node.content)

\* the body of the loop of do_scrub for one digest of list_files()
scrub_digest(fs, h, a, digest) ==
    LET cont == IF a.cont # None /\ digest = a.cont THEN None ELSE a.cont
        ino == fs.obj[digest]
        node == fs.inodes[ino]
        m == h.meta[digest]
        st == os_stat(fs, ino)
        differs == mtime_differs(st, m)
        lines == (IF st.size # PyInt(m.size)
                  THEN <<ErrLine("size mismatch", digest)>> ELSE << >>)
                 \o (IF differs
                     THEN <<ErrLine("mtime differs", digest)>> ELSE << >>)
    IN  IF skip_digest(a, digest)
        THEN ScrubOut(a.cont, << >>, fs, 0,
                      Visit(digest, TRUE, FALSE, Stat(0, 0), FALSE))
        ELSE IF ~data_exists(fs, digest)
        THEN ScrubOut(cont, <<ErrLine("missing data", digest)>>, fs, 0,
                      Visit(digest, FALSE, FALSE, Stat(0, 0), FALSE))
        ELSE IF a.fast \/ too_large(a.size, st) \/ (a.modified /\ ~differs)
        THEN ScrubOut(cont, lines, fs, 0,
                      Visit(digest, FALSE, TRUE, st, FALSE))
        ELSE IF scrub_hash(node) # digest
        THEN ScrubOut(cont,
                      lines \o <<ErrLine("checksum mismatch", digest)>>,
                      fs, 1, Visit(digest, FALSE, TRUE, st, TRUE))
        ELSE IF get_xattr_hash(node) # digest
        THEN ScrubOut(cont, lines \o <<ErrLine("update xattr", digest)>>,
                      set_xattr_hash(fs, ino, digest, node.mtime), 1,
                      Visit(digest, FALSE, TRUE, st, TRUE))
        ELSE ScrubOut(cont, lines, fs, 0,
                      Visit(digest, FALSE, TRUE, st, TRUE))

\* scrub that opens scrub_errors.txt for writing
ScrubStartTruncate(p) ==
    /\ pc[p] = "ready"
    /\ scrub.pc \in {"idle", "done"}
    /\ Len(scrub_errors) < MaxLog
    /\ \E a \in ScrubArgs :
          /\ scrub' = [NoScrub EXCEPT
                          !.pc = "loop", !.cont = a.cont, !.cont0 = a.cont,
                          !.size = a.size, !.modified = a.modified,
                          !.fast = a.fast, !.pos = 1, !.start = 0,
                          !.list = SortedSeq({d \in Digests :
                                                 HasMeta(meta[p], d)})]
          /\ scrub_errors' =
                <<ErrLine("scrub started", None)>>
                \o (IF a.cont # None
                    THEN <<ErrLine("continue from", a.cont)>> ELSE << >>)
    /\ UNCHANGED <<ivars, src, obj, inodes, clock, edits, call, wvars>>

\* do_scrub up to the loop: the log is opened for appending, the start of
\* the run is logged, list_files() gives the digests in the order of _meta
ScrubStart(p) ==
    /\ pc[p] = "ready"
    /\ scrub.pc \in {"idle", "done"}
    /\ Len(scrub_errors) < MaxLog
    /\ \E a \in ScrubArgs :
          /\ scrub' = [NoScrub EXCEPT
                          !.pc = "loop", !.cont = a.cont, !.cont0 = a.cont,
                          !.size = a.size, !.modified = a.modified,
                          !.fast = a.fast, !.pos = 1,
                          !.start = Len(scrub_errors),
                          !.list = SortedSeq({d \in Digests :
                                                 HasMeta(meta[p], d)})]
          /\ scrub_errors' =
                scrub_errors \o <<ErrLine("scrub started", None)>>
                \o (IF a.cont # None
                    THEN <<ErrLine("continue from", a.cont)>> ELSE << >>)
    /\ UNCHANGED <<ivars, src, obj, inodes, clock, edits, call, wvars>>

\* a loop that ends the run at the first missing object
ScrubStepAbort(p) ==
    /\ pc[p] = "ready"
    /\ scrub.pc = "loop"
    /\ scrub.pos <= Len(scrub.list)
    /\ LET r == scrub_digest(FS, Handle(p), scrub, scrub.list[scrub.pos])
       IN  /\ scrub' = [scrub EXCEPT
                           !.pc = IF r.visit.skipped \/ r.visit.exists
                                  THEN "loop" ELSE "done",
                           !.cont = r.cont, !.pos = @ + 1,
                           !.problems = @ + r.problems,
                           !.visits = Append(@, r.visit)]
           /\ scrub_errors' = scrub_errors \o r.lines
           /\ inodes' = r.fs.inodes
    /\ UNCHANGED <<ivars, src, obj, clock, edits, call, wvars>>

\* one turn of the loop
ScrubStep(p) ==
    /\ pc[p] = "ready"
    /\ scrub.pc = "loop"
    /\ scrub.pos <= Len(scrub.list)
    /\ LET r == scrub_digest(FS, Handle(p), scrub, scrub.list[scrub.pos])
       IN  /\ scrub' = [scrub EXCEPT
                           !.cont = r.cont, !.pos = @ + 1,
                           !.problems = @ + r.problems,
                           !.visits = Append(@, r.visit)]
           /\ scrub_errors' = scrub_errors \o r.lines
           /\ inodes' = r.fs.inodes
    /\ UNCHANGED <<ivars, src, obj, clock, edits, call, wvars>>

\* the loop is over: the log is closed, "problems were found" is printed
ScrubEnd(p) ==
    /\ pc[p] = "ready"
    /\ scrub.pc = "loop"
    /\ scrub.pos > Len(scrub.list)
    /\ scrub' = [scrub EXCEPT !.pc = "done", !.reported = scrub.problems > 0]
    /\ UNCHANGED <<ivars, src, obj, inodes, clock, edits, scrub_errors,
                   call, wvars>>

\* an object as import left it: its content, tagged, read-only
SoundObject(d) ==
    [content |-> ContentOf(d), mtime |-> 0,
     xattr |-> [mtime |-> 0, digest |-> d], mode |-> "ro"]

\* an object that lost its tag, was touched or written through another
\* link, less or more than the tolerance after the mtime in meta.txt
ObjectFiles(d) ==
    [content : Contents \cup {Damaged},
     mtime : {0, MaxTime, MtimeSlack * MaxTime + 1},
     xattr : {NoXattr, [mtime |-> 0, digest |-> d]},
     mode : {"ro"}]

\* a loaded repository some of whose digests have metadata; every object is
\* as it was imported, but one, which is missing or any of ObjectFiles
ScrubInit ==
    /\ \E known \in SUBSET Digests :
          LET lines == MetaLines([d \in Digests |->
                          IF d \in known
                          THEN Meta(PyNum(st_size(ContentOf(d))), PyNum(0))
                          ELSE NoMeta])
          IN  /\ known # {}
              /\ meta_txt = [EmptyFile(0) EXCEPT !.lines = lines]
              /\ meta = [p \in Procs |->
                            IF p = 1 THEN ParseMeta(lines) ELSE EmptyMeta]
    /\ index_txt = EmptyFile(0)
    /\ index = [p \in Procs |-> EmptyIndex]
    /\ pc = [p \in Procs |-> IF p = 1 THEN "ready" ELSE "exit"]
    /\ changed = [p \in Procs |-> FALSE]
    /\ readonly = [p \in Procs |-> FALSE]
    /\ dryrun = [p \in Procs |-> FALSE]
    /\ lockSh = {}
    /\ lockEx = {}
    /\ index_tmp = Absent
    /\ meta_tmp = Absent
    /\ txn = [p \in Procs |-> NoTxn]
    /\ seen = [p \in Procs |-> <<0, 0>>]
    /\ base = [p \in Procs |-> Snapshot(index[p], meta[p])]
    /\ VERBOSE = FALSE
    /\ last = NoLog
    /\ ops = 0
    /\ kills = 0
    /\ ncommit = 0
    /\ src = [f \in Srcs |-> None]
    /\ \E bad \in Digests :
          /\ obj \in {[d \in Digests |-> ContentOf(d)],
                      [d \in Digests |->
                          IF d = bad THEN None ELSE ContentOf(d)]}
          /\ \E file \in ObjectFiles(bad) :
                inodes = [i \in Inos |->
                    IF i \notin {obj[d] : d \in Digests} THEN FreeIno
                    ELSE IF i = ContentOf(bad) THEN file
                    ELSE SoundObject(hash_file(i))]
    /\ clock = 0
    /\ edits = 0
    /\ ScrubIdle
    /\ call = NoCall
    /\ WorkIdle

ScrubNext ==
    \/ \E p \in Procs : ScrubStart(p)
    \/ \E p \in Procs : ScrubStep(p)
    \/ \E p \in Procs : ScrubEnd(p)

\* scrub runs, one after the other
SpecScrub == ScrubInit /\ [][ScrubNext]_vars

\* the same, for a process that keeps running: a turn of the loop that can
\* be taken is taken, and so is the end of the run
SpecScrubFair ==
    /\ SpecScrub
    /\ WF_vars(\E p \in Procs : ScrubStep(p))
    /\ WF_vars(\E p \in Procs : ScrubEnd(p))

\* ------------------------------------------------------------------------
\* Part V: link_in, system call by system call
\* ------------------------------------------------------------------------
\* Repo.link_in(fn, digest) for the file f and the digest of its content:
\* the log line, then _link_in, which does nothing in a dry run; "was" is a
\* ghost, the object file of the digest when the call began
LinkInBegin(p) ==
    /\ CanCall(p)
    /\ call.pc \in {"idle", "done"}
    /\ \E f \in Srcs :
          /\ src[f] # None
          /\ LET d == hash_file(inodes[src[f]].content)
             IN  call' = [NoCall EXCEPT
                            !.pc = IF dryrun[p] THEN "done" ELSE "tag",
                            !.p = p, !.ino = src[f], !.digest = d,
                            !.was = obj[d]]
    /\ ops' = ops + 1
    /\ UNCHANGED <<pc, index, meta, changed, readonly, dryrun, lockvars,
                   diskvars, txn, seen, base, VERBOSE, last, kills, ncommit,
                   src, obj, inodes, clock, edits, scrubvars, wvars>>

\* _link_in: util.set_xattr_hash(fn, digest), then os.path.exists(key_abs)
LinkInTag(p) ==
    /\ call.pc = "tag"
    /\ call.p = p
    /\ inodes' = set_xattr_hash(FS, call.ino, call.digest,
                                inodes[call.ino].mtime).inodes
    /\ call' = [call EXCEPT !.pc = IF data_exists(FS, call.digest)
                                   THEN "unlink" ELSE "link"]
    /\ UNCHANGED <<ivars, src, obj, clock, edits, scrubvars, wvars>>

\* _link_in: os.unlink(key_abs)
LinkInUnlink(p) ==
    /\ call.pc = "unlink"
    /\ call.p = p
    /\ SetFS([FS EXCEPT !.obj[call.digest] = None])
    /\ call' = [call EXCEPT !.pc = "link"]
    /\ UNCHANGED <<ivars, clock, edits, scrubvars, wvars>>

\* _link_in: os.link(fn, key_abs)
LinkInLink(p) ==
    /\ call.pc = "link"
    /\ call.p = p
    /\ SetFS([FS EXCEPT !.obj[call.digest] = call.ino])
    /\ call' = [call EXCEPT !.pc = "chmod"]
    /\ UNCHANGED <<ivars, clock, edits, scrubvars, wvars>>

\* _link_in: os.chmod(key_abs, 0o444)
LinkInChmod(p) ==
    /\ call.pc = "chmod"
    /\ call.p = p
    /\ inodes' = [inodes EXCEPT ![obj[call.digest]].mode = "ro"]
    /\ call' = [call EXCEPT !.pc = "done"]
    /\ UNCHANGED <<ivars, src, obj, clock, edits, scrubvars, wvars>>

LinkNext ==
    \/ \E p \in Procs : LinkInBegin(p)
    \/ \E p \in Procs : LinkInTag(p)
    \/ \E p \in Procs : LinkInUnlink(p)
    \/ \E p \in Procs : LinkInLink(p)
    \/ \E p \in Procs : LinkInChmod(p)

\* calls of link_in, one after the other, on an empty store
SpecLink == GcInit /\ [][LinkNext]_vars

\* ------------------------------------------------------------------------
\* Processes on one repository root
\* ------------------------------------------------------------------------
StoreIdle ==
    /\ src = << >>
    /\ obj = << >>
    /\ inodes = << >>
    /\ clock = 0
    /\ edits = 0
    /\ ScrubIdle
    /\ call = NoCall
    /\ WorkIdle

\* every process is a command on a writable handle, dry-run off
Init ==
    /\ IndexInit(Procs, "new")
    /\ readonly = [p \in Procs |-> FALSE]
    /\ dryrun = [p \in Procs |-> FALSE]
    /\ VERBOSE = FALSE
    /\ StoreIdle

\* one process, with any combination of --dryrun and readonly
InitApi ==
    /\ IndexInit({1}, "new")
    /\ readonly \in [Procs -> BOOLEAN]
    /\ dryrun \in [Procs -> BOOLEAN]
    /\ \A p \in Procs \ {1} : ~readonly[p] /\ ~dryrun[p]
    /\ VERBOSE = TRUE
    /\ StoreIdle

NextRun ==
    \/ \E p \in Procs : InitCheck(p)
    \/ \E p \in Procs : InitLock(p)
    \/ \E p \in Procs : InitIndex(p)
    \/ \E p \in Procs : InitMeta(p)
    \/ \E p \in Procs : InitUnlock(p)
    \/ \E p \in Procs : LoadLock(p)
    \/ \E p \in Procs : LoadIndex(p)
    \/ \E p \in Procs : LoadMeta(p)
    \/ \E p \in Procs : LoadUnlock(p)
    \/ \E p \in Procs : CommitBegin(p)
    \/ \E p \in Procs : CommitLock(p)
    \/ \E p \in Procs : CommitOpenMeta(p)
    \/ \E p \in Procs : CommitWriteMeta(p)
    \/ \E p \in Procs : CommitOpenIndex(p)
    \/ \E p \in Procs : CommitWriteIndex(p)
    \/ \E p \in Procs : CommitRenameMeta(p)
    \/ \E p \in Procs : CommitRenameIndex(p)
    \/ \E p \in Procs : CommitUnlock(p)
    \/ \E p \in Procs : AddData(p)
    \/ \E p \in Procs : AddName(p)
    \/ \E p \in Procs : RemoveName(p)
    \/ \E p \in Procs : RemoveMeta(p)
    \/ \E p \in Procs : DeleteFiles(p)
    \/ \E p \in Procs : DeleteNames(p)
    \/ \E p \in Procs : SetNames(p)
    \/ \E p \in Procs : RenameFile(p)

Next ==
    \/ NextRun
    \/ \E p \in Procs : Kill(p)

\* processes that may be killed at any step
Spec == Init /\ [][Next]_vars

\* processes that run undisturbed
SpecRun == Init /\ [][NextRun]_vars

\* the calls of one handle
SpecApi == InitApi /\ [][NextRun]_vars

\* ------------------------------------------------------------------------
\* Properties of the index and its persistence
\* ------------------------------------------------------------------------
\* every name of the index lines has a line in the metadata lines
NamesHaveMeta(ilines, mlines) ==
    \A i \in 1..Len(ilines) : \E j \in 1..Len(mlines) :
        mlines[j][1] = ilines[i][2]

\* C1: from the moment a commit takes the lock until it ends, and after the
\* committing process was killed at any of its steps (until the next writer
\* starts), index.txt and meta.txt each are either as they were before the
\* commit or hold all the lines the commit writes.
C1_AtomicCommit ==
    \A p \in Procs :
        txn[p].active =>
            /\ Content(index_txt) \in {txn[p].preI, txn[p].postI}
            /\ Content(meta_txt) \in {txn[p].preM, txn[p].postM}

\* a commit that changes both files was killed between its two renames and
\* another process has loaded the files it left behind
C1_Witness ==
    \E p \in Procs, q \in Procs :
        /\ pc[p] = "dead"
        /\ txn[p].active
        /\ txn[p].preI # txn[p].postI
        /\ txn[p].preM # txn[p].postM
        /\ Content(meta_txt) = txn[p].postM
        /\ Content(index_txt) = txn[p].preI
        /\ index_txt.exists
        /\ pc[q] = "ready"
        /\ seen[q] = <<index_txt.gen, meta_txt.gen>>
        /\ index[q] = ParseIndex(index_txt.lines)

\* C2: at every step of a commit and after a kill at any of its steps, if
\* every name on disk had metadata on disk before the commit and every name
\* of the committed in-memory index has in-memory metadata, then every name
\* in index.txt has a line in meta.txt.
C2_NamesHaveMetaOnDisk ==
    \A p \in Procs :
        ( /\ txn[p].active
          /\ NamesHaveMeta(txn[p].preI[2], txn[p].preM[2])
          /\ NamesHaveMeta(txn[p].postI[2], txn[p].postM[2]) )
        => NamesHaveMeta(index_txt.lines, meta_txt.lines)

\* C3: a process that is writing a .tmp file or renaming one inside commit
\* holds the exclusive lock, and no other process holds the exclusive or
\* the shared lock.
C3_WriterHoldsExclusiveLock ==
    \A p \in Procs :
        pc[p] \in CommitWriting => lockEx = {p} /\ lockSh = {}

\* one process is between the two renames while another one waits for the
\* exclusive lock
C3_Witness ==
    \E p \in Procs, q \in Procs :
        /\ p # q
        /\ pc[p] = "c_ren_index"
        /\ pc[q] = "c_lock"

\* C4: the index.txt and the meta.txt a load has read were written by the
\* same commit (or by the same init).
C4_LoadSeesOneCommit ==
    \A p \in Procs :
        pc[p] \notin {"l_index", "l_meta"} => seen[p][1] = seen[p][2]

\* a load has read the two files of a commit while another process, which
\* has changes to commit, waits for the lock the load holds
C4_Witness ==
    \E p \in Procs, q \in Procs :
        /\ p # q
        /\ pc[p] = "l_unlock"
        /\ seen[p][1] > 0
        /\ seen[p][1] = seen[p][2]
        /\ pc[q] = "c_lock"

\* the call add_name(digest, name, overwrite) on the handle of p
AddNameCall(p, digest, name, overwrite) ==
    /\ CanCall(p)
    /\ Called(p, add_name(Handle(p), dryrun[p], digest, name, overwrite),
              "add_name",
              add_name_out(Handle(p), dryrun[p], digest, name, overwrite))

\* C5: add_name (dry-run off) maps an unmapped name to the digest, changes
\* nothing when the name is mapped to the digest, leaves index, metadata
\* and dirty flag alone when the name is mapped to another digest and
\* overwrite is off, and maps the name to the digest when overwrite is on.
C5_AddName ==
    [][\A p \in Procs, d \in Digests, n \in Names, ow \in BOOLEAN :
        (~dryrun[p] /\ AddNameCall(p, d, n, ow)) =>
            /\ index[p][n] = None => index'[p][n] = d
            /\ index[p][n] = d => UNCHANGED <<index, meta, changed>>
            /\ (index[p][n] \notin {None, d} /\ ~ow) =>
                   UNCHANGED <<index, meta, changed>>
            /\ (index[p][n] \notin {None, d} /\ ow) => index'[p][n] = d
            /\ \A m \in Names \ {n} : index'[p][m] = index[p][m]
            /\ meta' = meta
      ]_vars

\* add_name reported a conflict and left the name with its digest
C5_Witness ==
    /\ last.op = "add_name"
    /\ last.out = "conflict"
    /\ \E n \in Names : index[last.p][n] # None
    /\ ~changed[last.p]

\* the in-memory index is what the handle last loaded or committed
Unmodified(p) == Snapshot(index[p], meta[p]) = base[p]

C10_DryRunChangesNothing ==
    [][\A p \in Procs :
        (dryrun[p] /\ pc[p] = "ready") =>
            /\ index'[p] = index[p]
            /\ meta'[p] = meta[p]
            /\ UNCHANGED diskvars
            /\ UNCHANGED svars
      ]_vars

\* ------------------------------------------------------------------------
\* Properties of import and copy
\* ------------------------------------------------------------------------
\* the call store(src_fn) of do_import, for file f under the given name
ImportCall(p, f, name, overwrite, rehash) ==
    /\ CanCall(p)
    /\ src[f] # None
    /\ StoreCalled(p, store(FS, Handle(p), dryrun[p], f, name, overwrite,
                            rehash), "import")

\* the call copy_in(src_fn, name, overwrite) for file f
CopyInCall(p, f, name, overwrite) ==
    /\ CanCall(p)
    /\ src[f] # None
    /\ StoreCalled(p, copy_in(FS, Handle(p), dryrun[p], f, name, overwrite,
                              clock), "copy_in")

\* the digests whose object file holds content c
ObjectsHolding(o, tab, c) ==
    {d \in Digests : o[d] # None /\ tab[o[d]].content = c}

NamesOf(ix, d) == {n \in Names : ix[n] = d}

\* what C6 says of one import or copy of file f under name n by p
DedupStep(p, f, n) ==
    LET c == inodes[src[f]].content
        d == hash_file(c)
    IN  \* the first import of a content: one object, one name
        /\ (index[p][n] = None /\ ObjectsHolding(obj, inodes, c) = {}) =>
              /\ ObjectsHolding(obj', inodes', c) = {d}
              /\ HasMeta(meta'[p], d)
              /\ NamesOf(index'[p], d) = {n}
        \* the same content under the same name again: nothing changes
        /\ (index[p][n] = d /\ obj[d] # None) =>
              /\ index'[p] = index[p]
              /\ meta'[p] = meta[p]
              /\ obj' = obj
              /\ ObjectsHolding(obj', inodes', c) = {d}
        \* the same content under a second name: an alias, no new object
        /\ (index[p][n] = None /\ obj[d] # None
              /\ NamesOf(index[p], d) # {}) =>
              /\ NamesOf(index'[p], d) = NamesOf(index[p], d) \cup {n}
              /\ \A m \in Names \ {n} : index'[p][m] = index[p][m]
              /\ obj' = obj
              /\ ObjectsHolding(obj', inodes', c) = {d}
              /\ HasMeta(meta'[p], d)
              /\ \A e \in Digests \ {d} : meta'[p][e] = meta[p][e]

C7_ImportKeepsContent ==
    [][\A p \in Procs, f \in Srcs, n \in Names, ow \in BOOLEAN,
          rh \in BOOLEAN :
        (~dryrun[p] /\ ImportCall(p, f, n, ow, rh)) =>
            /\ inodes'[src'[f]].content = inodes[src[f]].content
            /\ index'[p][n] # index[p][n] =>
                  index'[p][n] = hash_file(inodes[src[f]].content)
      ]_vars

RenameFileCall(p, old, new) ==
    /\ CanCall(p)
    /\ Called(p, rename_file(Handle(p), old, new), "rename_file",
              IF index[p][old] # None THEN "renamed" ELSE "no file")

\* C11: rename_file(old, new), when new is mapped to a digest other than
\* the one of old, leaves new mapped to the digest it had.
C11_RenameKeepsMappedName ==
    [][\A p \in Procs, old \in Names, new \in Names :
        ( /\ RenameFileCall(p, old, new)
          /\ index[p][old] # None
          /\ index[p][new] \notin {None, index[p][old]} )
        => index'[p][new] = index[p][new]
      ]_vars

\* C12: on every loaded handle get_deleted() yields exactly the digests
\* that have a metadata entry and no name: a digest is among them once its
\* last name is gone and is not as soon as a name maps to it.
C12_GetDeleted ==
    \A p \in Procs :
        pc[p] = "ready" =>
            \A d \in Digests :
                d \in get_deleted(Handle(p)) <=>
                    (HasMeta(meta[p], d) /\ \A n \in Names : index[p][n] # d)

\* the last name of a digest with metadata was deleted, and the digest is
\* now among the deleted ones while the digest of a kept name is not
C12_Witness ==
    /\ last.op \in {"delete_names", "delete_files", "remove_name"}
    /\ last.out \in {"deleted", "removed"}
    /\ pc[last.p] = "ready"
    /\ ~dryrun[last.p]
    /\ \E d \in Digests :
          /\ HasMeta(meta[last.p], d)
          /\ d \in get_deleted(Handle(last.p))
          /\ \E n \in Names : base[last.p].index[n] = d

\* what a command that only deletes names leaves alone
DeleteFrame(p) ==
    /\ meta'[p] = meta[p]
    /\ meta_txt'.lines = meta_txt.lines
    /\ UNCHANGED <<src, obj, inodes>>

\* C13: delete-names and delete remove only names: the metadata entries
\* and the object files are what they were, names that were not given (or
\* not mapped to a given digest) keep their digest, and with dry-run off
\* the given names are gone.
C13_DeleteRemovesOnlyNames ==
    [][\A p \in Procs :
        /\ \A ns \in SUBSET Names :
              DeleteNamesCmd(p, ns) =>
                  /\ DeleteFrame(p)
                  /\ \A n \in Names \ ns : index'[p][n] = index[p][n]
                  /\ ~dryrun[p] => \A n \in ns : index'[p][n] = None
        /\ \A ds \in SUBSET Digests :
              DeleteCmd(p, ds) =>
                  /\ DeleteFrame(p)
                  /\ \A n \in Names :
                        index[p][n] \notin ds => index'[p][n] = index[p][n]
                  /\ ~dryrun[p] =>
                        \A n \in Names :
                            index[p][n] \in ds => index'[p][n] = None
      ]_vars

\* deletes (the only commands that take names away) have left the index
\* without names: the object that was stored and its metadata are still
\* there
C13_Witness ==
    \E p \in Procs, d \in Digests :
        /\ pc[p] = "ready"
        /\ ~dryrun[p]
        /\ ncommit > 1
        /\ \A n \in Names : index[p][n] = None
        /\ obj[d] # None
        /\ HasMeta(meta[p], d)

\* C14: a command never unlinks the object file of a digest that has a
\* name in the index the command has loaded.
C14_NamedObjectsKept ==
    [][\A p \in Procs, d \in Digests :
        (pc[p] = "ready" /\ obj[d] # None /\ obj'[d] = None)
        => NamesOf(index[p], d) = {}
      ]_vars

\* ------------------------------------------------------------------------
\* Properties of scrub
\* ------------------------------------------------------------------------
\* the lines the current (or last) scrub run has appended to the log
Appended == SubSeq(scrub_errors, scrub.start + 1, Len(scrub_errors))

Logged(kind, digest) ==
    \E i \in 1..Len(Appended) : Appended[i] = ErrLine(kind, digest)

\* the object of digest d is there and its size is not the one in meta.txt
SizeWrong(p, d) ==
    /\ obj[d] # None
    /\ st_size(inodes[obj[d]].content) # PyInt(meta[p][d].size)

\* the position of the checkpoint in the list of the run (0: not in it)
ContPos ==
    IF \E k \in 1..Len(scrub.list) : scrub.list[k] = scrub.cont0
    THEN CHOOSE k \in 1..Len(scrub.list) : scrub.list[k] = scrub.cont0
    ELSE 0

\* C15: in a scrub resumed from a checkpoint digest of the list, a digest
\* before the checkpoint gets no check and no line in the log; the
\* checkpoint and every digest after it get the existence check, the size
\* check when the object exists, and the rehash when no option skips it.
C15_CheckpointSkips ==
    \A p \in Procs :
        (pc[p] = "ready" /\ scrub.cont0 # None /\ ContPos > 0) =>
            \A i \in 1..Len(scrub.visits) :
                LET v == scrub.visits[i]
                    d == v.digest
                IN  /\ i < ContPos =>
                          /\ v.skipped /\ ~v.exists /\ ~v.hashed
                          /\ \A k \in 1..Len(Appended) : Appended[k][2] # d
                    /\ i >= ContPos =>
                          /\ ~v.skipped
                          /\ v.exists <=> obj[d] # None
                          /\ obj[d] = None <=> Logged("missing data", d)
                          /\ SizeWrong(p, d) <=> Logged("size mismatch", d)
                          /\ ( /\ obj[d] # None
                               /\ ~scrub.fast
                               /\ ~scrub.modified
                               /\ ~scrub.size.given ) => v.hashed

\* a run resumed from the second digest of the list has ended: the first
\* digest was skipped although its object is damaged, the second was hashed
C15_Witness ==
    /\ scrub.pc = "done"
    /\ Len(scrub.list) = 2
    /\ scrub.cont0 = scrub.list[2]
    /\ scrub.visits[1].skipped
    /\ obj[scrub.list[1]] # None
    /\ hash_file(inodes[obj[scrub.list[1]]].content) # scrub.list[1]
    /\ scrub.visits[2].hashed
    /\ ~scrub.reported

\* the turns of the loop so far are the visits of the first digests of the
\* list, and a run that has ended has visited every digest with a metadata
\* entry exactly once
ScrubVisits ==
    \A p \in Procs :
        pc[p] = "ready" =>
            /\ scrub.pc = "loop" =>
                  /\ scrub.pos <= Len(scrub.list) + 1
                  /\ Len(scrub.visits) = scrub.pos - 1
            /\ scrub.pc = "done" =>
                  /\ Len(scrub.visits) = Len(scrub.list)
                  /\ \A d \in Digests :
                        Cardinality({i \in 1..Len(scrub.visits) :
                                        scrub.visits[i].digest = d})
                        = IF HasMeta(meta[p], d) THEN 1 ELSE 0

\* C16: a scrub run visits the digests with metadata one after the other,
\* whatever it finds; every run that has started ends, and when it has
\* ended it has visited every digest with a metadata entry exactly once.
C16_ScrubVisitsAll ==
    /\ []ScrubVisits
    /\ (scrub.pc = "loop") ~> (scrub.pc = "done")

\* a run without checkpoint has ended: the object of the first digest was
\* missing, which was logged, and the second digest was hashed after it
C16_Witness ==
    /\ scrub.pc = "done"
    /\ scrub.cont0 = None
    /\ Len(scrub.list) = 2
    /\ obj[scrub.list[1]] = None
    /\ Logged("missing data", scrub.list[1])
    /\ scrub.visits[2].hashed

\* the object of d holds other content than d names, with the mtime of
\* meta.txt and an xattr that get_xattr_hash takes for valid
StaleObject(p, d) ==
    /\ HasMeta(meta[p], d)
    /\ obj[d] # None
    /\ hash_file(inodes[obj[d]].content) # d
    /\ inodes[obj[d]].mtime = PyInt(meta[p][d].mtime)
    /\ get_xattr_hash(inodes[obj[d]]) = d

\* C17 as stated: a scrub without --fast that has ended has logged a
\* checksum mismatch for every stale object and reported problems.
C17_StaleCacheDetected ==
    \A p \in Procs, d \in Digests :
        ( /\ pc[p] = "ready"
          /\ scrub.pc = "done"
          /\ ~scrub.fast
          /\ StaleObject(p, d) )
        => Logged("checksum mismatch", d) /\ scrub.reported

\* C17 amended: a scrub without --fast and without --modified, with no
\* size ceiling below the size of the object, and not resumed from a digest
\* after d, has logged a checksum mismatch for the stale object of d and
\* reported problems when it has ended.
C17_StaleCacheDetectedByRehash ==
    \A p \in Procs, d \in Digests :
        ( /\ pc[p] = "ready"
          /\ scrub.pc = "done"
          /\ StaleObject(p, d)
          /\ ~scrub.fast
          /\ ~scrub.modified
          /\ ~( /\ scrub.size.given
                /\ scrub.size.n # 0
                /\ st_size(inodes[obj[d]].content) > scrub.size.n )
          /\ scrub.cont0 # None =>
                /\ ContPos > 0
                /\ \E i \in ContPos..Len(scrub.list) : scrub.list[i] = d )
        => Logged("checksum mismatch", d) /\ scrub.reported

\* a full scrub has ended on a repository with a stale object: the
\* mismatch is in the log and problems were reported
C17_Witness ==
    /\ scrub.pc = "done"
    /\ ~scrub.fast /\ ~scrub.modified /\ ~scrub.size.given
    /\ scrub.cont0 = None
    /\ \E d \in Digests :
          /\ StaleObject(1, d)
          /\ Logged("checksum mismatch", d)
    /\ scrub.reported

\* what C18 says of the checks apart from the rehash
OtherChecks(p, v) ==
    /\ v.exists <=> obj[v.digest] # None
    /\ obj[v.digest] = None <=> Logged("missing data", v.digest)
    /\ SizeWrong(p, v.digest) <=> Logged("size mismatch", v.digest)
    /\ scrub.fast => ~Logged("checksum mismatch", v.digest)

C19_LogOnlyGrows ==
    [][ /\ Len(scrub_errors') >= Len(scrub_errors)
        /\ SubSeq(scrub_errors', 1, Len(scrub_errors)) = scrub_errors
        /\ \A p \in Procs :
              ScrubStep(p) =>
                  LET d == scrub.list[scrub.pos]
                      new == SubSeq(scrub_errors', Len(scrub_errors) + 1,
                                    Len(scrub_errors'))
                      Added(kind) ==
                          \E i \in 1..Len(new) : new[i] = ErrLine(kind, d)
                  IN  ~skip_digest(scrub, d) =>
                          /\ obj[d] = None => Added("missing data")
                          /\ SizeWrong(p, d) => Added("size mismatch")
                          /\ ( /\ scrub'.visits[scrub.pos].hashed
                               /\ hash_file(inodes[obj[d]].content) # d )
                             => Added("checksum mismatch")
      ]_vars

\* a second run has ended: the finding of the first run is in the log
\* before the lines of the second, which found the same
C19_Witness ==
    /\ scrub.pc = "done"
    /\ scrub.start >= 2
    /\ \E i \in 1..scrub.start, d \in Digests :
          /\ scrub_errors[i] = ErrLine("missing data", d)
          /\ Logged("missing data", d)

\* ------------------------------------------------------------------------
\* Properties of link_in
\* ------------------------------------------------------------------------
\* C20: from the beginning of a call link_in(source, digest) to its end,
\* an object file that was there for the digest stays the file it was; an
\* object that was not there is, at the end of a call with dry-run off, a
\* link to the source and read-only.
C20_LinkInKeepsObject ==
    /\ (call.pc # "idle" /\ call.was # None) =>
          obj[call.digest] = call.was
    /\ (call.pc = "done" /\ call.was = None /\ ~dryrun[call.p]) =>
          /\ obj[call.digest] = call.ino
          /\ inodes[call.ino].mode = "ro"

\* ------------------------------------------------------------------------
\* Properties of find_name_size, init and copy --overwrite
\* ------------------------------------------------------------------------
\* the sizes files can have
Sizes == {st_size(c) : c \in Contents}

\* C23: on every loaded handle, find_name_size(name, size) is the digest of
\* the name when the name is mapped and the metadata of its digest records
\* that size, and nothing otherwise, for entries added by the handle and
\* for entries read by load.
C23_FindNameSize ==
    \A p \in Procs, n \in Names, size \in Sizes :
        pc[p] = "ready" =>
            find_name_size(Handle(p), n, size) =
                IF /\ index[p][n] # None
                   /\ HasMeta(meta[p], index[p][n])
                   /\ PyInt(meta[p][index[p][n]].size) = size
                THEN index[p][n]
                ELSE None

\* C28: init leaves an existing index.txt as it is, also when other
\* processes run init or commit at the same time: the step of init that
\* opens index.txt for writing is taken only while index.txt does not
\* exist, by the holder of the exclusive lock.
C28_InitKeepsExistingIndex ==
    [][\A p \in Procs :
        InitIndex(p) => (lockEx = {p} /\ ~index_txt.exists)
      ]_vars

\* C30: copy_in(src, name, overwrite=True) with dry-run off, when the name
\* is mapped to another digest than the one of the content of src, maps
\* the name to the digest of that content and leaves an object for it.
C30_CopyOverwrite ==
    [][\A p \in Procs, f \in Srcs, n \in Names :
        ( /\ ~dryrun[p]
          /\ CopyInCall(p, f, n, TRUE)
          /\ index[p][n] \notin {None, hash_file(inodes[src[f]].content)} )
        => /\ index'[p][n] = hash_file(inodes[src[f]].content)
           /\ obj'[hash_file(inodes[src[f]].content)] # None
      ]_vars

\* ------------------------------------------------------------------------
\* Part VI: Repo.set_names_batch and its callers
\* ------------------------------------------------------------------------
\* a dict of names: the digest of each name in it, None for the others
NameMaps == [Names -> Digests \cup {None}]

\* name.startswith('/'): the names with an even number stand for the names
\* with a leading slash, n for '/' + the name n - 1
startswith_slash(n) == n % 2 = 0

\* name.lstrip('/')
lstrip(n) == IF startswith_slash(n) THEN n - 1 ELSE n

\* how a call of set_names_batch ends: old_names is a set, and
\* old_names.append(name) raises AttributeError for the first name of the
\* index whose digest is in digests, before anything is deleted
set_names_batch_out(h, files, digests) ==
    IF \E n \in Names : h.index[n] # None /\ h.index[n] \in digests
    THEN "AttributeError"
    ELSE "done"

\* Repo.set_names_batch: no dry-run guard
set_names_batch(h, files, digests) ==
    IF set_names_batch_out(h, files, digests) = "done"
    THEN [h EXCEPT
            !.index = [n \in Names |->
                          IF files[n] # None THEN files[n] ELSE h.index[n]],
            !.changed = TRUE]
    ELSE h

\* an exception leaves the call and ends the process
Raised(p, op, out) ==
    /\ pc' = [pc EXCEPT ![p] = "exit"]
    /\ ops' = ops + 1
    /\ last' = Log(p, op, out)
    /\ UNCHANGED <<svars, VERBOSE, base, memvars, readonly, dryrun, lockvars,
                   diskvars, txn, seen, kills, ncommit>>

\* do_fix_paths: 'fix' of the loop over list_file_names
fix(h) == \E n \in Names : h.index[n] # None /\ startswith_slash(n)

\* do_fix_paths: the digests of the index
fix_digests(h) == {h.index[n] : n \in Names} \ {None}

\* do_fix_paths: the dicts 'filenames' the loop can build; of two names that
\* lstrip makes equal the later one of the iteration stays
fix_filenames(h) ==
    {files \in NameMaps :
        \A m \in Names :
            LET from == {h.index[n] : n \in {k \in Names : lstrip(k) = m}}
                            \ {None}
            IN  IF from = {} THEN files[m] = None ELSE files[m] \in from}

\* do_fix_paths with the dict 'filenames' it built; the commit that follows
\* set_names_batch is CommitBegin
FixPathsCall(p, files) ==
    /\ CanCall(p)
    /\ files \in fix_filenames(Handle(p))
    /\ LET h == Handle(p)
           out == set_names_batch_out(h, files, fix_digests(h))
       IN  IF ~fix(h) THEN Called(p, h, "fix-paths", "nothing")
           ELSE IF out = "done"
           THEN Called(p, set_names_batch(h, files, fix_digests(h)),
                       "set_names_batch", out)
           ELSE Raised(p, "set_names_batch", out)

FixPaths(p) == \E files \in NameMaps : FixPathsCall(p, files)

\* Browser.save_file with a dict 'files' that is not empty: it calls
\* set_names_batch(files), one argument for the two parameters files and
\* digests, which raises TypeError before the body runs
SaveFileCall(p, files) ==
    /\ CanCall(p)
    /\ \E n \in Names : files[n] # None
    /\ Raised(p, "set_names_batch", "TypeError")

SaveFile(p) == \E files \in NameMaps : SaveFileCall(p, files)

BatchNext ==
    \/ NextRun
    \/ \E p \in Procs : FixPaths(p)
    \/ \E p \in Procs : SaveFile(p)

\* the calls of one handle, with fix-paths and the save of the tree editor
SpecBatch == InitApi /\ [][BatchNext]_vars

\* C24: a call of set_names_batch by fix-paths (which has names to fix)
\* or by the save of the tree editor returns without an error, and in the
\* index after it every name of the new map has the digest of the map;
\* after the call by fix-paths every other name that had one of the
\* replaced digests is gone and the remaining names are as they were.
C24_SetNamesBatch ==
    [][\A p \in Procs, files \in NameMaps :
        /\ (FixPathsCall(p, files) /\ fix(Handle(p))) =>
              /\ pc'[p] = "ready"
              /\ \A n \in Names :
                    index'[p][n] =
                        IF files[n] # None THEN files[n]
                        ELSE IF index[p][n] \in fix_digests(Handle(p))
                        THEN None
                        ELSE index[p][n]
        /\ SaveFileCall(p, files) =>
              /\ pc'[p] = "ready"
              /\ \A n \in Names : files[n] # None => index'[p][n] = files[n]
      ]_vars

\* ------------------------------------------------------------------------
\* Part VII: Repo.link_to, Repo.link_overwrite and util.link_over
\* ------------------------------------------------------------------------
\* how many names <dst>.<i> link_over tries in the model
MaxTry == 3

\* link_overwrite(digest, dst_fn) up to the call of util.link_over:
\* os.path.samefile raises when one of the two files is not there
LinkOverwriteCall(p, d, f) ==
    /\ CanCall(p)
    /\ call.pc \notin {"over_link", "over_rename"}
    /\ call' = [NoCall EXCEPT
                  !.p = p, !.digest = d, !.dst = f, !.was = src[f],
                  !.pc = IF obj[d] = None \/ src[f] = None
                         THEN "over_raised"
                         ELSE IF obj[d] = src[f] \/ dryrun[p]
                         THEN "over_done"
                         ELSE "over_link"]
    /\ pc' = [pc EXCEPT ![p] =
                 IF obj[d] = None \/ src[f] = None THEN "exit" ELSE "ready"]
    /\ ops' = ops + 1
    /\ UNCHANGED <<index, meta, changed, readonly, dryrun, lockvars, diskvars,
                   txn, seen, base, VERBOSE, last, kills, ncommit, src, obj,
                   inodes, clock, edits, scrubvars, wvars>>

LinkOverwriteBegin(p) ==
    \E d \in Digests, f \in Srcs : LinkOverwriteCall(p, d, f)

\* link_over that removes dst before it links the temporary name
LinkOverLinkUnlink(p) ==
    /\ call.pc = "over_link"
    /\ call.p = p
    /\ pc[p] = "ready"
    /\ SetFS([FS EXCEPT !.src[call.dst] = None])
    /\ tmp_names' = [tmp_names EXCEPT ![call.dst] = @ \cup {call.i}]
    /\ call' = [call EXCEPT !.pc = "over_rename", !.ino = obj[call.digest]]
    /\ UNCHANGED <<ivars, clock, edits, scrubvars, xdev, xf,
                   last_commit_time, annex>>

\* link_over: one turn of 'while True': tmp = '%s.%d' % (dst, i);
\* os.link(src, tmp); 'except IOError' (OSError) catches the error of a
\* name that exists and the error of a link across filesystems alike:
\* i += 1 and the next turn
LinkOverLink(p) ==
    /\ call.pc = "over_link"
    /\ call.p = p
    /\ pc[p] = "ready"
    /\ IF call.dst \in xdev \/ call.i \in tmp_names[call.dst]
       THEN /\ call.i < MaxTry
            /\ call' = [call EXCEPT !.i = call.i + 1]
            /\ UNCHANGED tmp_names
       ELSE /\ tmp_names' = [tmp_names EXCEPT ![call.dst] = @ \cup {call.i}]
            /\ call' = [call EXCEPT !.pc = "over_rename",
                                    !.ino = obj[call.digest]]
    /\ UNCHANGED <<ivars, src, obj, inodes, clock, edits, scrubvars, xdev, xf,
                   last_commit_time, annex>>

\* link_over: os.rename(tmp, dst)
LinkOverRename(p) ==
    /\ call.pc = "over_rename"
    /\ call.p = p
    /\ pc[p] = "ready"
    /\ SetFS([FS EXCEPT !.src[call.dst] = call.ino])
    /\ tmp_names' = [tmp_names EXCEPT ![call.dst] = @ \ {call.i}]
    /\ call' = [call EXCEPT !.pc = "over_done"]
    /\ UNCHANGED <<ivars, clock, edits, scrubvars, xdev, xf,
                   last_commit_time, annex>>

\* link_to(digest, dst_fn): os.link(key_abs, dst_fn) raises OSError when the
\* object is not there or dst_fn is on another filesystem
LinkToCall(p, d, f) ==
    /\ CanCall(p)
    /\ call.pc \notin {"over_link", "over_rename"}
    /\ LET skip == src[f] # None \/ dryrun[p]
           fails == obj[d] = None \/ f \in xdev
       IN  /\ call' = [NoCall EXCEPT
                         !.p = p, !.digest = d, !.dst = f, !.was = src[f],
                         !.pc = IF skip THEN "to_done"
                                ELSE IF fails THEN "to_raised"
                                ELSE "to_done"]
           /\ pc' = [pc EXCEPT ![p] =
                        IF ~skip /\ fails THEN "exit" ELSE "ready"]
           /\ IF skip \/ fails THEN UNCHANGED <<src, obj, inodes>>
              ELSE SetFS([FS EXCEPT !.src[f] = obj[d]])
    /\ ops' = ops + 1
    /\ UNCHANGED <<index, meta, changed, readonly, dryrun, lockvars, diskvars,
                   txn, seen, base, VERBOSE, last, kills, ncommit, clock,
                   edits, scrubvars, wvars>>

LinkTo(p) == \E d \in Digests, f \in Srcs : LinkToCall(p, d, f)

\* import of a file that is on the filesystem of the repository
OverImport(p) ==
    \E f \in Srcs \ xdev, n \in Names : ImportCall(p, f, n, FALSE, FALSE)

\* an empty repository loaded by process 1; outside it files that are or
\* are not there, on the filesystem of the repository or on another one,
\* with or without a name <path>.0 beside them
OverInit ==
    /\ IndexInit({1}, "ready")
    /\ RootEmpty
    /\ readonly = [p \in Procs |-> FALSE]
    /\ dryrun \in [Procs -> BOOLEAN]
    /\ \A p \in Procs \ {1} : ~dryrun[p]
    /\ VERBOSE = FALSE
    /\ \E there \in SUBSET Srcs,
          files \in [Srcs -> {node \in SourceFiles : node.xattr = NoXattr}] :
          /\ src = [f \in Srcs |-> IF f \in there THEN f ELSE None]
          /\ inodes = [i \in Inos |->
                          IF i \in there THEN files[i] ELSE FreeIno]
    /\ obj = [d \in Digests |-> None]
    /\ clock = 0
    /\ edits = 0
    /\ ScrubIdle
    /\ call = NoCall
    /\ tmp_names \in [Srcs -> SUBSET {0}]
    /\ xdev \in SUBSET Srcs
    /\ xf = NoFile
    /\ last_commit_time = [p \in Procs |-> 0]
    /\ annex = NoAnnex

OverNext ==
    \/ \E p \in Procs : OverImport(p)
    \/ \E p \in Procs : LinkOverwriteBegin(p)
    \/ \E p \in Procs : LinkOverLink(p)
    \/ \E p \in Procs : LinkOverRename(p)
    \/ \E p \in Procs : LinkTo(p)
    \/ \E p \in Procs : Kill(p)

\* imports and links out of the store by a process that may be killed at
\* any step
SpecOver == OverInit /\ [][OverNext]_vars

\* C21: from the beginning of a call link_overwrite(digest, dst) on a
\* destination that is there and is not the object, whether the process
\* goes on or is killed, the path dst is there and is the old file or the
\* object; when the call has returned it is the object.
C21_LinkOverwriteAtomic ==
    (call.pc \in {"over_link", "over_rename", "over_done"}
        /\ call.was # None /\ obj[call.digest] # None) =>
        /\ src[call.dst] \in {call.was, obj[call.digest]}
        /\ src[call.dst] # None
        /\ (call.pc = "over_done" /\ ~dryrun[call.p]) =>
              src[call.dst] = obj[call.digest]

\* a call of link_overwrite has replaced a file by the object
C21_Witness ==
    /\ call.pc = "over_done"
    /\ ~dryrun[call.p]
    /\ call.was # None
    /\ call.was # obj[call.digest]
    /\ src[call.dst] = obj[call.digest]

\* C22: a call of link_to or link_overwrite whose os.link fails because the
\* destination is on another filesystem ends with an error and leaves the
\* destination as it was; link_over does not go to another turn of its
\* loop.
C22_CrossDeviceIsError ==
    [][\A p \in Procs :
        /\ \A d \in Digests, f \in Srcs :
              ( /\ LinkToCall(p, d, f)
                /\ f \in xdev /\ src[f] = None /\ ~dryrun[p]
                /\ obj[d] # None )
              => (call'.pc = "to_raised" /\ src'[f] = None)
        /\ (LinkOverLink(p) /\ call.dst \in xdev) =>
              (call'.pc = "over_raised" /\ src'[call.dst] = src[call.dst])
      ]_vars

\* ------------------------------------------------------------------------
\* Part VIII: the bytes of the hash xattr, and util.write_access
\* ------------------------------------------------------------------------
\* the modes of the file: 0o444, 0o644, 0o400
FileModes == {292, 420, 256}

\* the bit of value b of a mode
Bit(mode, b) == (mode \div b) % 2

\* mode | 0o600: the bits 0o400 (256) and 0o200 (128) are set
OrMode(mode) ==
    mode + (IF Bit(mode, 256) = 0 THEN 256 ELSE 0)
         + (IF Bit(mode, 128) = 0 THEN 128 ELSE 0)

\* what a call gives back: a value, or an exception that leaves it
Ret(v) == [exc |-> FALSE, v |-> v]
Exc == [exc |-> TRUE, v |-> None]

\* '%d:%s' % (int(mtime), digest), of a digest of SHA256_LEN characters
FormatAttr(mtime, digest) ==
    [kind |-> "text", colon |-> TRUE, num |-> TRUE, n |-> Sec(mtime),
     digest |-> digest, len |-> SHA256_LEN]

\* the values an attribute can have
RawAttrs ==
    {a \in [kind : {"absent", "empty", "nonascii", "text"}, colon : BOOLEAN,
            num : BOOLEAN, n : 0 .. 1, digest : Digests \cup {None},
            len : {0, SHA256_LEN - 1, SHA256_LEN}] :
        /\ a.kind # "text" => a = [NoAttr EXCEPT !.kind = a.kind]
        /\ a.kind = "text" =>
              /\ ~a.num => a.n = 0
              /\ ~a.colon => (a.len = 0 /\ a.digest = None)
              /\ a.colon => (a.len # 0 /\ a.digest # None)}

\* util.get_xattr_hash on the bytes of the attribute: getxattr raises
\* IOError when there is no attribute; 'getxattr(...) or None' makes None
\* of empty bytes, and None has no decode; decode('ascii') raises on other
\* bytes; then the tests of the ':', of the length and of int(mtime)
get_xattr_hash_raw(attr, st_mtime) ==
    IF attr.kind = "absent" THEN Ret(None)
    ELSE IF attr.kind \in {"empty", "nonascii"} THEN Exc
    ELSE IF ~attr.colon THEN Ret(None)
    ELSE IF attr.len # SHA256_LEN THEN Ret(None)
    ELSE IF ~attr.num THEN Ret(None)
    ELSE IF Sec(st_mtime) = attr.n THEN Ret(attr.digest)
    ELSE Ret(None)

\* a reader calls get_xattr_hash
GetXattr ==
    /\ xf.pc \in {"idle", "done", "raised"}
    /\ xf' = [xf EXCEPT !.got = get_xattr_hash_raw(xf.attr, xf.mtime)]
    /\ UNCHANGED <<ivars, src, obj, inodes, clock, edits, scrubvars, call,
                   tmp_names, xdev, last_commit_time, annex>>

\* another program writes the file in a later second: a new mtime
Touch ==
    /\ xf.pc \in {"idle", "done", "raised"}
    /\ Sec(clock) # Sec(xf.mtime)
    /\ xf' = [xf EXCEPT !.mtime = clock, !.touched = TRUE]
    /\ UNCHANGED <<ivars, src, obj, inodes, clock, edits, scrubvars, call,
                   tmp_names, xdev, last_commit_time, annex>>

\* set_xattr_hash(fn, digest): mtime = os.stat(fn).st_mtime and the bytes
SetXattrCall(d) ==
    /\ xf.pc \in {"idle", "done", "raised"}
    /\ ops < MaxOps
    /\ ops' = ops + 1
    /\ xf' = [xf EXCEPT !.pc = "enter", !.arg = d,
                        !.value = FormatAttr(xf.mtime, d),
                        !.saved = None, !.exc = "none", !.mode0 = xf.mode,
                        !.touched = FALSE]
    /\ UNCHANGED <<pc, index, meta, changed, readonly, dryrun, lockvars,
                   diskvars, txn, seen, base, VERBOSE, last, kills, ncommit,
                   src, obj, inodes, clock, edits, scrubvars, call,
                   tmp_names, xdev, last_commit_time, annex>>

SetXattrBegin == \E d \in Digests : SetXattrCall(d)

\* write_access.__enter__
WaEnter ==
    /\ xf.pc = "enter"
    /\ xf' = [xf EXCEPT !.pc = "set", !.saved = xf.mode,
                        !.mode = OrMode(xf.mode)]
    /\ UNCHANGED <<ivars, src, obj, inodes, clock, edits, scrubvars, call,
                   tmp_names, xdev, last_commit_time, annex>>

\* xattr.setxattr in 'try: ... except IOError: pass': it sets the bytes; or
\* it raises IOError, on a filesystem without xattrs, which is dropped; or
\* another exception (the interrupt of the user) leaves the with block
SetXattr ==
    /\ xf.pc = "set"
    /\ \/ /\ xf.supported
          /\ xf' = [xf EXCEPT !.pc = "exit", !.attr = xf.value]
       \/ /\ ~xf.supported
          /\ xf' = [xf EXCEPT !.pc = "exit"]
       \/ xf' = [xf EXCEPT !.pc = "exit", !.exc = "KeyboardInterrupt"]
    /\ UNCHANGED <<ivars, src, obj, inodes, clock, edits, scrubvars, call,
                   tmp_names, xdev, last_commit_time, annex>>

\* write_access.__exit__ that puts the mode back only after a block that
\* ended without an exception
WaExitOnReturn ==
    /\ xf.pc = "exit"
    /\ xf' = [xf EXCEPT
                !.pc = IF xf.exc = "none" THEN "done" ELSE "raised",
                !.mode = IF xf.saved # None /\ xf.exc = "none"
                         THEN xf.saved ELSE xf.mode]
    /\ UNCHANGED <<ivars, src, obj, inodes, clock, edits, scrubvars, call,
                   tmp_names, xdev, last_commit_time, annex>>

\* write_access.__exit__: os.chmod(self.fn, self.mode), then the exception
\* of the block, if any, goes on to the caller
WaExit ==
    /\ xf.pc = "exit"
    /\ xf' = [xf EXCEPT
                !.pc = IF xf.exc = "none" THEN "done" ELSE "raised",
                !.mode = IF xf.saved # None THEN xf.saved ELSE xf.mode]
    /\ UNCHANGED <<ivars, src, obj, inodes, clock, edits, scrubvars, call,
                   tmp_names, xdev, last_commit_time, annex>>

\* a file of any mode and with any bytes in its attribute, on a filesystem
\* with or without xattrs
XattrInit ==
    /\ IndexInit({1}, "ready")
    /\ RootEmpty
    /\ readonly = [p \in Procs |-> FALSE]
    /\ dryrun = [p \in Procs |-> FALSE]
    /\ VERBOSE = FALSE
    /\ src = [f \in Srcs |-> None]
    /\ obj = [d \in Digests |-> None]
    /\ inodes = [i \in Inos |-> FreeIno]
    /\ clock = 0
    /\ edits = 0
    /\ ScrubIdle
    /\ call = NoCall
    /\ tmp_names = [f \in Srcs |-> {}]
    /\ xdev = {}
    /\ last_commit_time = [p \in Procs |-> 0]
    /\ annex = NoAnnex
    /\ \E mode \in FileModes, sup \in BOOLEAN, a \in RawAttrs :
          /\ ~sup => a = NoAttr
          /\ xf = [NoFile EXCEPT !.mode = mode, !.mode0 = mode,
                                 !.supported = sup, !.attr = a]

XattrNext ==
    \/ GetXattr
    \/ Touch
    \/ SetXattrBegin
    \/ WaEnter
    \/ SetXattr
    \/ WaExit
    \/ Tick

SpecXattr == XattrInit /\ [][XattrNext]_vars

\* the attribute is '<mtime>:<digest>' with an integer mtime and a digest
\* of SHA256_LEN characters
WellFormed(a) ==
    a.kind = "text" /\ a.colon /\ a.num /\ a.len = SHA256_LEN

\* C25: get_xattr_hash gives the digest of the attribute when the
\* attribute is '<mtime>:<digest>', with a digest of 64 characters and the
\* mtime the integer seconds of the mtime of the file, and gives nothing in
\* every other case; after set_xattr_hash(path, d) and no change of the
\* mtime it gives d.
C25_XattrRoundTrip ==
    [][GetXattr =>
        /\ xf'.got = IF WellFormed(xf.attr) /\ xf.attr.n = Sec(xf.mtime)
                     THEN Ret(xf.attr.digest)
                     ELSE Ret(None)
        /\ (xf.pc = "done" /\ ~xf.touched) => xf'.got = Ret(xf.arg)
      ]_vars

\* C26: when set_xattr_hash has returned or has let an exception through,
\* the mode of the file is the mode it had when the call began.
C26_ModeRestored ==
    xf.pc \in {"done", "raised"} => xf.mode = xf.mode0

\* an exception left set_xattr_hash on a file without write permission
C26_Witness ==
    /\ xf.pc = "raised"
    /\ Bit(xf.mode0, 128) = 0
    /\ xf.mode = xf.mode0

\* ------------------------------------------------------------------------
\* Part IX: Repo.auto_commit in the walks of import, copy and pull
\* ------------------------------------------------------------------------
\* the seconds after which auto_commit commits
AutoCommitSecs == 20

\* how long an item of a walk takes, in ticks: a tick, the seconds of
\* auto_commit, a tick more than those
Waits == {1, AutoCommitSecs * MaxTime, AutoCommitSecs * MaxTime + 1}

\* auto_commit that never finds the time to be over
auto_commit_never(now, last_time) == FALSE

\* auto_commit: time.time() - self._last_commit_time > 20
auto_commit_due(now, last_time) == now - last_time > AutoCommitSecs * MaxTime

\* one turn of the loop of a walk, of the command op the process runs: the
\* item changes files and handle as in r and takes dt ticks; then, if the
\* turn gets there, auto_commit: when the time is over, commit() (nothing
\* on dry-run or without changes) and the timer starts again
WalkItem(p, r, op, dt, reached) ==
    /\ CanCall(p)
    /\ call.pc \in {"idle", op}
    /\ call' = [NoCall EXCEPT !.pc = op, !.p = p, !.other = call.other]
    /\ SetFS(r.fs)
    /\ clock' = clock + dt
    /\ LET now == clock + dt
           due == reached /\ auto_commit_due(now, last_commit_time[p])
           write == due /\ ~dryrun[p] /\ r.h.changed
       IN  /\ index_txt' = IF write
                           THEN [EmptyFile(ncommit + 1) EXCEPT
                                    !.lines = IndexLines(r.h.index)]
                           ELSE index_txt
           /\ meta_txt' = IF write
                          THEN [EmptyFile(ncommit + 1) EXCEPT
                                   !.lines = MetaLines(r.h.meta)]
                          ELSE meta_txt
           /\ ncommit' = IF write THEN ncommit + 1 ELSE ncommit
           /\ SetHandle(p, [r.h EXCEPT !.changed = r.h.changed /\ ~write])
           /\ base' = IF write
                      THEN [base EXCEPT ![p] = Snapshot(r.h.index, r.h.meta)]
                      ELSE base
           /\ last_commit_time' =
                 IF due THEN [last_commit_time EXCEPT ![p] = now]
                 ELSE last_commit_time
    /\ ops' = ops + 1
    /\ last' = Log(p, op, r.out)
    /\ UNCHANGED <<VERBOSE, pc, readonly, dryrun, lockvars, index_tmp,
                   meta_tmp, txn, seen, kills, edits, scrubvars, tmp_names,
                   xdev, xf, annex>>

\* do_import: store(fn), then repo.auto_commit()
ImportItem(p, f, n, ow, dt) ==
    /\ src[f] # None
    /\ WalkItem(p, store(FS, Handle(p), dryrun[p], f, n, ow, FALSE),
                "import", dt, TRUE)

\* do_copy: repo.copy_in(fn, name, overwrite), then repo.auto_commit()
CopyItem(p, f, n, ow, dt) ==
    /\ src[f] # None
    /\ WalkItem(p, copy_in(FS, Handle(p), dryrun[p], f, n, ow, clock),
                "copy", dt, TRUE)

\* whether a turn of the loop of do_pull leaves by 'continue'
Skipped(r) == r.out \in {"exists", "skipping"}

\* do_pull: the two 'continue' of the loop leave the turn before
\* repo.auto_commit()
PullItem(p, f, n, ow, dt) ==
    /\ src[f] # None
    /\ LET r == do_pull(FS, Handle(p), dryrun[p], f, n, ow, clock)
       IN  WalkItem(p, r, "pull", dt, ~Skipped(r))

Walk(p) ==
    \E f \in Srcs, n \in Names, ow \in BOOLEAN, dt \in Waits :
        \/ ImportItem(p, f, n, ow, dt)
        \/ CopyItem(p, f, n, ow, dt)
        \/ PullItem(p, f, n, ow, dt)

WalkNext == \E p \in Procs : Walk(p)

\* the items of the walk of one command, one after the other
SpecWalk == GcInit /\ [][WalkNext]_vars

\* the time is over at the end of an item that takes dt ticks
Due(p, dt) == clock + dt - last_commit_time[p] > AutoCommitSecs * MaxTime

\* what auto_commit does at the end of an item: when the time is over the
\* index and the metadata of the handle are on disk (unless on dry-run)
\* and the timer is at the time of the call; otherwise the files and the
\* timer are as before the item
AutoCommitted(p, dt) ==
    IF Due(p, dt)
    THEN /\ last_commit_time'[p] = clock'
         /\ ~dryrun[p] =>
               /\ index_txt'.lines = IndexLines(index'[p])
               /\ meta_txt'.lines = MetaLines(meta'[p])
               /\ ~changed'[p]
    ELSE UNCHANGED <<index_txt, meta_txt, last_commit_time>>

\* C27: at the end of every item of the walk of import, copy or pull,
\* auto_commit has run: if more than 20 seconds have passed since the timer
\* was started it has written the index and started the timer again,
\* otherwise it has changed nothing.
C27_AutoCommitEveryItem ==
    [][\A p \in Procs, f \in Srcs, n \in Names, ow \in BOOLEAN, dt \in Waits :
        (ImportItem(p, f, n, ow, dt) \/ CopyItem(p, f, n, ow, dt)
            \/ PullItem(p, f, n, ow, dt))
        => AutoCommitted(p, dt)
      ]_vars

\* C27: the same at the end of every item of import and of copy and of
\* every item of pull that is not skipped; an item that pull skips
\* (the name has the digest already, or it has another one and overwrite
\* is off) changes neither the files nor the timer.
C27_AutoCommitProcessedItems ==
    [][\A p \in Procs, f \in Srcs, n \in Names, ow \in BOOLEAN, dt \in Waits :
        /\ (ImportItem(p, f, n, ow, dt) \/ CopyItem(p, f, n, ow, dt))
              => AutoCommitted(p, dt)
        /\ PullItem(p, f, n, ow, dt) =>
              IF Skipped(do_pull(FS, Handle(p), dryrun[p], f, n, ow, clock))
              THEN UNCHANGED <<index_txt, meta_txt, last_commit_time>>
              ELSE AutoCommitted(p, dt)
      ]_vars

\* an auto-commit has written names that a walk added
C27_Witness ==
    \E p \in Procs :
        /\ last_commit_time[p] > AutoCommitSecs * MaxTime
        /\ last_commit_time[p] = clock
        /\ index_txt.lines # << >>
        /\ ~changed[p]
        /\ ~dryrun[p]

\* ------------------------------------------------------------------------
\* Part X: the git-annex bridge, annex_add and annex_fix
\* ------------------------------------------------------------------------
\* annex_add.do_add(fn) up to the first change: the digest of the xattr,
\* the key of the object (the size in the key follows from the content, so
\* the digest stands for the key), os.path.exists(key_fn), dry-run
AnnexAddCall(p, f) ==
    /\ CanCall(p)
    /\ annex.pc \in {"idle", "a_done"}
    /\ src[f] # None
    /\ LET digest == get_xattr_hash(inodes[src[f]])
           go == digest # None /\ annex.key[digest] = None /\ ~dryrun[p]
       IN  annex' = [annex EXCEPT
                        !.pc = IF go THEN "a_link" ELSE "idle",
                        !.p = p, !.f = f, !.digest = digest,
                        !.ino = src[f],
                        !.content = inodes[src[f]].content]
    /\ ops' = ops + 1
    /\ UNCHANGED <<pc, index, meta, changed, readonly, dryrun, lockvars,
                   diskvars, txn, seen, base, VERBOSE, last, kills, ncommit,
                   src, obj, inodes, clock, edits, scrubvars, call,
                   tmp_names, xdev, xf, last_commit_time>>

AnnexAddBegin(p) == \E f \in Srcs : AnnexAddCall(p, f)

\* do_add that goes on without the link of the object
AnnexAddLinkNone(p) ==
    /\ annex.pc = "a_link"
    /\ annex.p = p
    /\ pc[p] = "ready"
    /\ annex' = [annex EXCEPT !.pc = "a_unlink"]
    /\ UNCHANGED <<ivars, src, obj, inodes, clock, edits, scrubvars, call,
                   tmp_names, xdev, xf, last_commit_time>>

\* do_add: os.link(fn, key_fn)
AnnexAddLink(p) ==
    /\ annex.pc = "a_link"
    /\ annex.p = p
    /\ pc[p] = "ready"
    /\ annex' = [annex EXCEPT !.pc = "a_unlink",
                              !.key[annex.digest] = src[annex.f]]
    /\ UNCHANGED <<ivars, src, obj, inodes, clock, edits, scrubvars, call,
                   tmp_names, xdev, xf, last_commit_time>>

\* do_add: os.unlink(fn); the kernel frees the inode if no name is left
AnnexAddUnlink(p) ==
    /\ annex.pc = "a_unlink"
    /\ annex.p = p
    /\ pc[p] = "ready"
    /\ annex' = [annex EXCEPT !.pc = "a_symlink"]
    /\ SetFS([FS EXCEPT !.src[annex.f] = None])
    /\ UNCHANGED <<ivars, clock, edits, scrubvars, call, tmp_names, xdev, xf,
                   last_commit_time>>

\* do_add: os.symlink(key_rel, fn)
AnnexAddSymlink(p) ==
    /\ annex.pc = "a_symlink"
    /\ annex.p = p
    /\ pc[p] = "ready"
    /\ annex' = [annex EXCEPT !.pc = "a_done",
                              !.link[annex.f] = annex.digest,
                              !.made = @ \cup {annex.f}]
    /\ UNCHANGED <<ivars, src, obj, inodes, clock, edits, scrubvars, call,
                   tmp_names, xdev, xf, last_commit_time>>

\* annex_fix.do_link(fn, force) for a path that is a symlink into the
\* objects of the annex, when it has something to do: the object of the
\* repository is linked to the path of the annex object (link_to), or
\* over the file that is there with --force (link_overwrite, unless it is
\* the same file); the kernel frees the inode of a file that was replaced
AnnexFixCall(p, f, force) ==
    /\ pc[p] = "ready"
    /\ annex.pc \in {"idle", "a_done"}
    /\ annex.link[f] # None
    /\ LET digest == annex.link[f]
           keys == [annex.key EXCEPT ![digest] = obj[digest]]
           linked == ({src[g] : g \in Srcs} \cup {obj[d] : d \in Digests}
                         \cup {keys[d] : d \in Digests}) \ {None}
       IN  /\ data_exists(FS, digest)
           /\ ~dryrun[p]
           /\ annex.key[digest] = None \/ force
           /\ annex.key[digest] # obj[digest]
           /\ annex' = [annex EXCEPT !.key = keys]
           /\ inodes' = [i \in Inos |->
                            IF i \in linked THEN inodes[i] ELSE FreeIno]
    /\ UNCHANGED <<ivars, src, obj, clock, edits, scrubvars, call, tmp_names,
                   xdev, xf, last_commit_time>>

AnnexFix(p) == \E f \in Srcs, force \in BOOLEAN : AnnexFixCall(p, f, force)

\* import <file> into the repository
AnnexImport(p) ==
    \E f \in Srcs, n \in Names : ImportCall(p, f, n, FALSE, FALSE)

\* an empty repository loaded by process 1 and a git-annex tree: each path
\* is a file, or a symlink of git-annex to an object that is not there, or
\* nothing
AnnexInit ==
    /\ IndexInit({1}, "ready")
    /\ RootEmpty
    /\ readonly = [p \in Procs |-> FALSE]
    /\ dryrun \in [Procs -> BOOLEAN]
    /\ \A p \in Procs \ {1} : ~dryrun[p]
    /\ VERBOSE = FALSE
    /\ \E there \in SUBSET Srcs, files \in [Srcs -> SourceFiles],
          links \in [Srcs -> Digests \cup {None}] :
          /\ src = [f \in Srcs |-> IF f \in there THEN f ELSE None]
          /\ inodes = [i \in Inos |->
                          IF i \in there THEN files[i] ELSE FreeIno]
          /\ annex = [NoAnnex EXCEPT
                        !.link = [f \in Srcs |->
                                     IF f \in there THEN None ELSE links[f]]]
    /\ obj = [d \in Digests |-> None]
    /\ clock = 0
    /\ edits = 0
    /\ ScrubIdle
    /\ call = NoCall
    /\ tmp_names = [f \in Srcs |-> {}]
    /\ xdev = {}
    /\ xf = NoFile
    /\ last_commit_time = [p \in Procs |-> 0]

AnnexNext ==
    \/ \E p \in Procs : AnnexImport(p)
    \/ \E p \in Procs : AnnexAddBegin(p)
    \/ \E p \in Procs : AnnexAddLink(p)
    \/ \E p \in Procs : AnnexAddUnlink(p)
    \/ \E p \in Procs : AnnexAddSymlink(p)
    \/ \E p \in Procs : AnnexFix(p)
    \/ \E p \in Procs : Kill(p)

\* the two directions of the bridge, by a process that may be killed at
\* any step
SpecAnnex == AnnexInit /\ [][AnnexNext]_vars

CopyPos == {"cp_write", "cp_flush", "cp_tag", "cp_link", "cp_alias",
            "cp_close"}

\* copy_in(src_fn, name, overwrite) with dry-run off, up to the temporary
\* file: the two tests that skip the file, then _copy_tmp makes an empty
\* NamedTemporaryFile in <root>/tmp
CopyBeginCall(p, f, n, ow) ==
    /\ CanCall(p)
    /\ call.pc \notin CopyPos
    /\ ~dryrun[p]
    /\ src[f] # None
    /\ LET h == Handle(p)
           node == inodes[src[f]]
           d == hash_file(node.content)
           skip == \/ h.index[n] # None /\ ~ow
                   \/ find_name_size(h, n, st_size(node.content)) # None
           tmp == NewIno(FS)
           c == [NoCall EXCEPT
                   !.p = p, !.ino = src[f], !.name = n, !.ow = ow,
                   !.d0 = d, !.was = obj[d],
                   !.node = IF obj[d] # None THEN inodes[obj[d]]
                            ELSE FreeIno]
       IN  IF skip
           THEN /\ call' = [c EXCEPT !.pc = "cp_skip"]
                /\ UNCHANGED inodes
           ELSE /\ call' = [c EXCEPT !.pc = "cp_write", !.tmp = tmp]
                /\ inodes' = [inodes EXCEPT ![tmp] =
                                 [content |-> None, mtime |-> clock,
                                  xattr |-> NoXattr, mode |-> "rw"]]
    /\ ops' = ops + 1
    /\ UNCHANGED <<pc, index, meta, changed, readonly, dryrun, lockvars,
                   diskvars, txn, seen, base, VERBOSE, last, kills, ncommit,
                   src, obj, clock, edits, scrubvars, wvars>>

CopyBegin(p) ==
    \E f \in Srcs, n \in Names, ow \in BOOLEAN : CopyBeginCall(p, f, n, ow)

\* util.hash_file: tmp.write(block), some blocks of the source are in the
\* temporary file
CopyWrite(p) ==
    /\ call.pc = "cp_write"
    /\ call.p = p
    /\ pc[p] = "ready"
    /\ inodes' = [inodes EXCEPT ![call.tmp].content = Damaged]
    /\ call' = [call EXCEPT !.pc = "cp_flush"]
    /\ UNCHANGED <<ivars, src, obj, clock, edits, scrubvars, wvars>>

\* util.hash_file: the last block and tmp.flush(); h.hexdigest()
CopyFlush(p) ==
    /\ call.pc = "cp_flush"
    /\ call.p = p
    /\ pc[p] = "ready"
    /\ inodes' = [inodes EXCEPT
                     ![call.tmp].content = inodes[call.ino].content]
    /\ call' = [call EXCEPT !.pc = "cp_tag",
                            !.digest = hash_file(inodes[call.ino].content)]
    /\ UNCHANGED <<ivars, src, obj, clock, edits, scrubvars, wvars>>

\* _copy_tmp: util.set_xattr_hash(tmp.name, digest, mtime of the source);
\* copy_in: self.data_exists(digest)
CopyTag(p) ==
    /\ call.pc = "cp_tag"
    /\ call.p = p
    /\ pc[p] = "ready"
    /\ inodes' = set_xattr_hash(FS, call.tmp, call.digest,
                                inodes[call.ino].mtime).inodes
    /\ call' = [call EXCEPT !.pc = IF data_exists(FS, call.digest)
                                   THEN "cp_alias" ELSE "cp_link"]
    /\ UNCHANGED <<ivars, src, obj, clock, edits, scrubvars, wvars>>

\* copy_in, the digest is new: _link_in(tmp.name, digest), add_data(digest,
\* tmp.name), add_name(digest, name, overwrite)
CopyLink(p) ==
    /\ call.pc = "cp_link"
    /\ call.p = p
    /\ pc[p] = "ready"
    /\ LET fs1 == _link_in(FS, FALSE, call.tmp, call.digest)
           h1 == add_data(Handle(p), call.digest, os_stat(fs1, call.tmp))
       IN  /\ obj' = fs1.obj
           /\ inodes' = fs1.inodes
           /\ SetHandle(p, add_name(h1, FALSE, call.digest, call.name,
                                    call.ow))
    /\ call' = [call EXCEPT !.pc = "cp_close"]
    /\ UNCHANGED <<pc, readonly, dryrun, lockvars, diskvars, txn, seen, base,
                   VERBOSE, last, ops, kills, ncommit, src, clock, edits,
                   scrubvars, wvars>>

\* copy_in that links its temporary file over the object that is there
CopyAliasRelink(p) ==
    /\ call.pc = "cp_alias"
    /\ call.p = p
    /\ pc[p] = "ready"
    /\ LET h == Handle(p)
       IN  IF call.name \notin get_names(h, call.digest) /\ ~no_alias
           THEN SetHandle(p, add_name(h, FALSE, call.digest, call.name,
                                      call.ow))
           ELSE UNCHANGED <<index, meta, changed>>
    /\ obj' = [obj EXCEPT ![call.digest] = call.tmp]
    /\ inodes' = [inodes EXCEPT ![obj[call.digest]] = FreeIno]
    /\ call' = [call EXCEPT !.pc = "cp_close"]
    /\ UNCHANGED <<pc, readonly, dryrun, lockvars, diskvars, txn, seen, base,
                   VERBOSE, last, ops, kills, ncommit, src, clock, edits,
                   scrubvars, wvars>>

\* copy_in, the digest is stored: the name is added unless the digest has
\* it or OPTIONS.no_alias
CopyAlias(p) ==
    /\ call.pc = "cp_alias"
    /\ call.p = p
    /\ pc[p] = "ready"
    /\ LET h == Handle(p)
       IN  IF call.name \notin get_names(h, call.digest) /\ ~no_alias
           THEN SetHandle(p, add_name(h, FALSE, call.digest, call.name,
                                      call.ow))
           ELSE UNCHANGED <<index, meta, changed>>
    /\ call' = [call EXCEPT !.pc = "cp_close"]
    /\ UNCHANGED <<pc, readonly, dryrun, lockvars, diskvars, txn, seen, base,
                   VERBOSE, last, ops, kills, ncommit, src, obj, inodes,
                   clock, edits, scrubvars, wvars>>

\* tmp.close(): the name in <root>/tmp is removed, and the kernel frees the
\* inode unless it is the object now
CopyClose(p) ==
    /\ call.pc = "cp_close"
    /\ call.p = p
    /\ pc[p] = "ready"
    /\ call' = [call EXCEPT !.pc = "cp_done", !.tmp = None]
    /\ inodes' = [inodes EXCEPT ![call.tmp] =
                     IF call.tmp \in {obj[d] : d \in Digests}
                     THEN inodes[call.tmp] ELSE FreeIno]
    /\ UNCHANGED <<ivars, src, obj, clock, edits, scrubvars, wvars>>

\* a loaded repository that is empty or has one object, without a name,
\* and the files to copy
CopyInit ==
    /\ \E known \in SUBSET {hash_file(1)} :
          LET lines == MetaLines([d \in Digests |->
                          IF d \in known
                          THEN Meta(PyNum(st_size(ContentOf(d))), PyNum(0))
                          ELSE NoMeta])
          IN  /\ meta_txt = [EmptyFile(0) EXCEPT !.lines = lines]
              /\ meta = [p \in Procs |->
                            IF p = 1 THEN ParseMeta(lines) ELSE EmptyMeta]
              /\ obj = [d \in Digests |->
                           IF d \in known THEN MaxSrc + 1 ELSE None]
              /\ \E files \in [Srcs -> {node \in SourceFiles :
                                           node.xattr = NoXattr}] :
                    inodes = [i \in Inos |->
                        IF i \in Srcs THEN files[i]
                        ELSE IF i = MaxSrc + 1 /\ known # {}
                        THEN SoundObject(hash_file(1))
                        ELSE FreeIno]
    /\ index_txt = EmptyFile(0)
    /\ index = [p \in Procs |-> EmptyIndex]
    /\ pc = [p \in Procs |-> IF p = 1 THEN "ready" ELSE "exit"]
    /\ changed = [p \in Procs |-> FALSE]
    /\ readonly = [p \in Procs |-> FALSE]
    /\ dryrun = [p \in Procs |-> FALSE]
    /\ lockSh = {}
    /\ lockEx = {}
    /\ index_tmp = Absent
    /\ meta_tmp = Absent
    /\ txn = [p \in Procs |-> NoTxn]
    /\ seen = [p \in Procs |-> <<0, 0>>]
    /\ base = [p \in Procs |-> Snapshot(index[p], meta[p])]
    /\ VERBOSE = FALSE
    /\ last = NoLog
    /\ ops = 0
    /\ kills = 0
    /\ ncommit = 0
    /\ src = [f \in Srcs |-> f]
    /\ clock = 0
    /\ edits = 0
    /\ ScrubIdle
    /\ call = NoCall
    /\ WorkIdle

CopyNext ==
    \/ \E p \in Procs : CopyBegin(p)
    \/ \E p \in Procs : CopyWrite(p)
    \/ \E p \in Procs : CopyFlush(p)
    \/ \E p \in Procs : CopyTag(p)
    \/ \E p \in Procs : CopyLink(p)
    \/ \E p \in Procs : CopyAlias(p)
    \/ \E p \in Procs : CopyClose(p)
    \/ \E p \in Procs : Kill(p)

\* calls of copy_in by a process that may be killed at any step
SpecCopy == CopyInit /\ [][CopyNext]_vars

\* from the beginning of a call of copy_in, the object that was there for
\* the digest of the source is the file it was
ObjectKept ==
    (call.pc \in CopyPos \cup {"cp_done", "cp_skip"} /\ call.was # None) =>
        /\ obj[call.d0] = call.was
        /\ inodes[call.was] = call.node

\* a call of copy_in that has returned has no file in <root>/tmp
NoTmpLeft == call.pc \in {"cp_done", "cp_skip"} => call.tmp = None

\* no object path holds a file that is written in part
NoPartialObject ==
    \A d \in Digests : obj[d] # None => inodes[obj[d]].content = ContentOf(d)

\* a call of copy_in for a source whose digest is stored and a name that
\* is free is not skipped, and its last step adds the name for the digest
AliasAdded ==
    \A p \in Procs :
        /\ \A f \in Srcs, n \in Names, ow \in BOOLEAN :
              ( /\ CopyBeginCall(p, f, n, ow)
                /\ obj[hash_file(inodes[src[f]].content)] # None
                /\ index[p][n] = None )
              => call'.pc = "cp_write"
        /\ (CopyAlias(p) /\ ~no_alias) =>
              index'[p][call.name] = call.digest

\* C31: copy_in of a source whose digest is stored leaves the object that
\* is there as it is, at every step, and adds the name, which was free, for
\* the digest (aliases on); when copy_in has returned no temporary file is
\* left in <root>/tmp; and no object path ever holds a file that is written
\* in part.
C31_CopyInDedup ==
    /\ [](ObjectKept /\ NoTmpLeft /\ NoPartialObject)
    /\ [][AliasAdded]_vars

\* copy_in has returned after it added a name for an object that was there:
\* the object is the file it was and <root>/tmp is empty
C31_Witness ==
    /\ call.pc = "cp_done"
    /\ call.was # None
    /\ obj[call.d0] = call.was
    /\ index[call.p][call.name] = call.d0
    /\ call.tmp = None
    /\ \E d \in Digests : d # call.d0 /\ obj[d] # None

\* ------------------------------------------------------------------------
\* Properties of sequences of commands
\* ------------------------------------------------------------------------
\* C32: after any sequence of import, copy, pull, delete, delete-names,
\* clean-meta and show-deleted --clean on an initialised repository, every
\* digest that a name is mapped to has metadata, in the handle and in the
\* files that were committed.
C32_NamedDigestHasMeta ==
    /\ \A p \in Procs : \A n \in Names :
          (pc[p] = "ready" /\ index[p][n] # None) =>
              HasMeta(meta[p], index[p][n])
    /\ LET idx == ParseIndex(index_txt.lines)
           mt == ParseMeta(meta_txt.lines)
       IN  \A n \in Names : idx[n] # None => HasMeta(mt, idx[n])

\* C33: when a commit has renamed its files and still holds the lock, the
\* lines of index.txt and meta.txt are the lines of the committer's
\* in-memory index and metadata, whatever other handles have loaded, added
\* or committed before: the last committer's snapshot is what is on disk.
C33_LastCommitWins ==
    \A p \in Procs :
        pc[p] = "c_unlock" =>
            /\ index_txt.lines = IndexLines(index[p])
            /\ meta_txt.lines = MetaLines(meta[p])

\* the second of two commits is done, and a name that the other handle has
\* in memory, with nothing left to commit, is not in index.txt
C33_Witness ==
    \E p \in Procs, q \in Procs :
        /\ p # q
        /\ pc[p] = "c_unlock"
        /\ ncommit >= 2
        /\ pc[q] = "ready"
        /\ ~changed[q]
        /\ \E n \in Names :
              /\ index[q][n] # None
              /\ index[p][n] = None
              /\ ParseIndex(index_txt.lines)[n] = None
        /\ \E n \in Names : index[p][n] # None /\ index[q][n] = None

\* the handle of p holds entries other than the ones it last loaded or
\* committed
Modified(p) == Snapshot(index[p], meta[p]) # base[p]

\* C34: with dry-run off, a handle between two calls whose in-memory names
\* or metadata differ from what it last loaded or committed has _changed
\* set; so a commit that returns at once skips no modification, and when a
\* commit has written the files _changed is false.
C34_DirtyFlag ==
    /\ [](\A p \in Procs :
            (pc[p] = "ready" /\ ~dryrun[p] /\ Modified(p)) => changed[p])
    /\ [][\A p \in Procs :
            /\ (CommitBegin(p) /\ ~dryrun[p] /\ pc'[p] = "ready") =>
                  ~Modified(p)
            /\ CommitUnlock(p) => (~changed'[p] /\ ~Modified(p)')
         ]_vars

\* a handle that has loaded or committed some name was modified since, and
\* its flag is set
C34_Witness ==
    \E p \in Procs :
        /\ pc[p] = "ready"
        /\ ~dryrun[p]
        /\ ncommit >= 1
        /\ base[p].index # EmptyIndex
        /\ Modified(p)
        /\ changed[p]

\* the handle of q has just loaded the files that the handle of p
\* committed, and neither has been modified since
LoadedCommitOf(q, p) ==
    /\ p # q
    /\ pc[p] = "ready"
    /\ pc[q] = "ready"
    /\ ~Modified(p)
    /\ ~Modified(q)
    /\ index_txt.gen > 0
    /\ meta_txt.gen = index_txt.gen
    /\ index_txt.lines = IndexLines(index[p])
    /\ meta_txt.lines = MetaLines(meta[p])
    /\ seen[q] = <<index_txt.gen, meta_txt.gen>>

\* the lines are in ascending order of their first field
SortedLines(lines) ==
    \A i \in 1..Len(lines), j \in 1..Len(lines) :
        i < j => lines[i][1] < lines[j][1]

\* C35: commit, then load in a fresh handle, gives the same mapping of
\* names to digests and the same digests with metadata, with the same size
\* and mtime values; index.txt is sorted by name and meta.txt by digest.
C35_RoundTrip ==
    \A p \in Procs, q \in Procs :
        LoadedCommitOf(q, p) =>
            /\ index[q] = index[p]
            /\ \A d \in Digests : HasMeta(meta[q], d) = HasMeta(meta[p], d)
            /\ \A d \in Digests : meta[q][d] = meta[p][d]
            /\ SortedLines(index_txt.lines)
            /\ SortedLines(meta_txt.lines)

\* the same with the sizes and mtimes compared as the text that '%s' gives
RoundTripText ==
    \A p \in Procs, q \in Procs :
        LoadedCommitOf(q, p) =>
            /\ index[q] = index[p]
            /\ \A d \in Digests : HasMeta(meta[q], d) = HasMeta(meta[p], d)
            /\ \A d \in Digests :
                  /\ Text(meta[q][d].size) = Text(meta[p][d].size)
                  /\ Text(meta[q][d].mtime) = Text(meta[p][d].mtime)
            /\ SortedLines(index_txt.lines)
            /\ SortedLines(meta_txt.lines)

\* ------------------------------------------------------------------------
\* Part XII: do_pull from another repository, and a handle that is readonly
\* ------------------------------------------------------------------------
\* other = Repo(fn, readonly=True); other.load()
PullOpen(p) ==
    /\ pc[p] = "ready"
    /\ ~readonly[p]
    /\ call.pc = "idle"
    /\ ~call.other.loaded
    /\ call' = [call EXCEPT
                   !.other.loaded = TRUE,
                   !.other.index = ParseIndex(call.other.index_txt),
                   !.other.meta = ParseMeta(call.other.meta_txt)]
    /\ UNCHANGED <<ivars, src, obj, inodes, clock, edits, scrubvars, wvars>>

\* one turn of the loop over other.list_file_names(): the entry of name n,
\* with other.data(digest) as the file to copy
PullTurn(p) ==
    /\ call.other.loaded
    /\ ~readonly[p]
    /\ \E n \in Names, ow \in BOOLEAN, dt \in Waits :
          /\ call.other.index[n] # None
          /\ PullItem(p, call.other.objs[call.other.index[n]], n, ow, dt)

\* a repository that is initialised and empty, opened by the handle of
\* process 1 and by a handle that is readonly, and another repository
\* with objects, names and metadata
PullInit ==
    /\ IndexInit(Procs, "ready")
    /\ RootEmpty
    /\ readonly = [p \in Procs |-> p # 1]
    /\ dryrun \in [Procs -> BOOLEAN]
    /\ \A p \in Procs \ {1} : ~dryrun[p]
    /\ VERBOSE = FALSE
    /\ obj = [d \in Digests |-> None]
    /\ clock = 0
    /\ edits = 0
    /\ ScrubIdle
    /\ WorkIdle
    /\ \E objs \in [Digests -> Srcs \cup {None}], oix \in [Names -> Digests] :
          /\ \A d \in Digests, e \in Digests :
                (objs[d] # None /\ objs[d] = objs[e]) => d = e
          /\ \A n \in Names : objs[oix[n]] # None
          /\ src = [f \in Srcs |->
                IF \E d \in Digests : objs[d] = f THEN f ELSE None]
          /\ inodes = [i \in Inos |->
                IF \E d \in Digests : objs[d] = i
                THEN SoundObject(CHOOSE d \in Digests : objs[d] = i)
                ELSE FreeIno]
          /\ call = [NoCall EXCEPT !.other =
                [NoOther EXCEPT
                    !.objs = objs,
                    !.index_txt = IndexLines(oix),
                    !.meta_txt = MetaLines([d \in Digests |->
                        IF objs[d] # None
                        THEN Meta(PyStr(st_size(ContentOf(d))), PyStr(0))
                        ELSE NoMeta])]]

PullNext ==
    \/ \E p \in Procs : PullOpen(p)
    \/ \E p \in Procs : PullTurn(p)
    \/ \E p \in Procs : readonly[p] /\ AddName(p)
    \/ \E p \in Procs : CommitBegin(p)
    \/ \E p \in Procs : CommitLock(p)
    \/ \E p \in Procs : CommitOpenMeta(p)
    \/ \E p \in Procs : CommitWriteMeta(p)
    \/ \E p \in Procs : CommitOpenIndex(p)
    \/ \E p \in Procs : CommitWriteIndex(p)
    \/ \E p \in Procs : CommitRenameMeta(p)
    \/ \E p \in Procs : CommitRenameIndex(p)
    \/ \E p \in Procs : CommitUnlock(p)

\* a pull from another repository, and calls on a handle that is readonly
SpecPull == PullInit /\ [][PullNext]_vars

\* a handle that is readonly is nowhere in commit past its tests
ReadonlyOutOfCommit ==
    \A p \in Procs : readonly[p] => pc[p] \notin {"c_lock"} \cup CommitLocked

\* commit on a handle that is readonly and has changes ends the process
\* (SystemExit) with the lock and the files as they are; and no step of a
\* handle that is readonly changes a file of the root
ReadonlyCommitFails ==
    \A p \in Procs :
        /\ (CommitBegin(p) /\ readonly[p] /\ changed[p] /\ ~dryrun[p]) =>
              /\ pc'[p] = "exit"
              /\ UNCHANGED <<lockvars, diskvars>>
        /\ (readonly[p] /\ (pc'[p] # pc[p] \/ index'[p] # index[p])) =>
              UNCHANGED diskvars

\* index.txt, meta.txt and the objects of the other repository are what
\* they were
OtherKept ==
    /\ call'.other.index_txt = call.other.index_txt
    /\ call'.other.meta_txt = call.other.meta_txt
    /\ call'.other.objs = call.other.objs
    /\ \A d \in Digests :
          LET f == call.other.objs[d]
          IN  f # None =>
                 /\ src'[f] = src[f]
                 /\ inodes'[src[f]] = inodes[src[f]]

\* C36: commit on a handle that is readonly and has changes raises
\* SystemExit before it takes the lock or writes a file, so that such a
\* handle never changes index.txt or meta.txt; and a pull leaves index.txt,
\* meta.txt and the objects of the repository it reads as they are.
C36_ReadonlyNeverWrites ==
    /\ []ReadonlyOutOfCommit
    /\ [][ReadonlyCommitFails /\ OtherKept]_vars

\* the pull has copied an object of the other repository and committed its
\* name, and the commit of the readonly handle, which has a name to write,
\* has ended the process
C36_Witness ==
    \E p \in Procs, q \in Procs :
        /\ readonly[q]
        /\ pc[q] = "exit"
        /\ changed[q]
        /\ ~readonly[p]
        /\ pc[p] = "ready"
        /\ \E n \in Names :
              /\ index[p][n] # None
              /\ index[p][n] = call.other.index[n]
              /\ ParseIndex(index_txt.lines)[n] = index[p][n]
              /\ obj[index[p][n]] # None
              /\ obj[index[p][n]] # src[call.other.objs[index[p][n]]]
              /\ index[q][n] = None

====
